---- MODULE Spec2Model ----
(***************************************************************************)
(* A model of the ranked_voting crate (instant-runoff tabulation):         *)
(* the Builder, the validator `checks`, the advancement functions, the     *)
(* round executor `run_one_round` and the driver `run_voting_stats`.       *)
(*                                                                         *)
(* HashMap and HashSet values are modelled as functions and sets.  The     *)
(* iteration order of a HashMap is unspecified; wherever the code lets it  *)
(* reach a result, the model takes every order (see SortedTallies).        *)
(* candidate_stats and the transfer lists are kept as functions keyed by   *)
(* candidate id: their Vec order is produced by a HashMap iteration and is *)
(* read by nothing inside the engine.                                      *)
(***************************************************************************)
EXTENDS Integers, Sequences, FiniteSets, TLC

(***************************************************************************)
(* Bounds of the model.                                                    *)
(***************************************************************************)
\* the number of registered candidates
MaxCands == 3
\* the number of ballots added to a Builder
MaxBallots == 3
\* the number of ranks of a ballot
MaxLen == 2
\* the weight of a ballot
MaxCount == 2
\* the total weight of the ballots of a Builder
MaxWeight == 3
\* the seeds of TieBreakMode::Random
MaxSeed == 0
\* the n of MaxSkippedRank::MaxAllowed(n)
MaxSkip == 1
\* VoteRules.number_of_winners
MaxWinners == 2
\* the n of VoteRules.minimum_vote_threshold = Some(n)
MaxThreshold == 1
\* the n of VoteRules.max_rankings_allowed = Some(n)
MaxRankings == 1

(***************************************************************************)
(* Helpers on sequences and sets.                                          *)
(***************************************************************************)
Range(s) == {s[i] : i \in DOMAIN s}

RECURSIVE SumOver(_, _)
SumOver(S, f) ==
    IF S = {} THEN 0
    ELSE LET x == CHOOSE y \in S : TRUE IN f[x] + SumOver(S \ {x}, f)

SeqsUpTo(S, n) == UNION {[1..k -> S] : k \in 0..n}

\* s < t in the lexicographic order of Rust's String comparison
RECURSIVE LexLess(_, _)
LexLess(s, t) ==
    IF t = <<>> THEN FALSE
    ELSE IF s = <<>> THEN TRUE
    ELSE IF Head(s) # Head(t) THEN Head(s) < Head(t)
    ELSE LexLess(Tail(s), Tail(t))

(***************************************************************************)
(* config.rs: the choices of a raw ballot, and the rules.                  *)
(***************************************************************************)
Candidate(name) == [kind |-> "Candidate", name |-> name]
UndeclaredWriteIn == [kind |-> "UndeclaredWriteIn", name |-> <<>>]
BallotOvervote == [kind |-> "Overvote", name |-> <<>>]
Undervote == [kind |-> "Undervote", name |-> <<>>]
Blank == [kind |-> "Blank", name |-> <<>>]

Ballot(candidates, count) == [candidates |-> candidates, count |-> count]

UseCandidateOrder == [kind |-> "UseCandidateOrder", seed |-> 0]
Random(seed) == [kind |-> "Random", seed |-> seed]
TieBreakMode == {UseCandidateOrder} \cup {Random(s) : s \in 0..MaxSeed}

OverVoteRule == {"ExhaustImmediately", "AlwaysSkipToNextRank"}

DuplicateCandidateMode == {"Exhaust", "SkipDuplicate"}

EliminationAlgorithm == {"Batch", "Single"}

Unlimited == [kind |-> "Unlimited", n |-> 0]
ExhaustOnFirstOccurence == [kind |-> "ExhaustOnFirstOccurence", n |-> 0]
MaxAllowed(n) == [kind |-> "MaxAllowed", n |-> n]
MaxSkippedRank ==
    {Unlimited, ExhaustOnFirstOccurence} \cup {MaxAllowed(n) : n \in 0..MaxSkip}

WinnerElectionMode == {"SingelWinnerMajority"}

\* the values of an Option
NoneValue == [kind |-> "None"]
SomeValue(x) == [kind |-> "Some", v |-> x]

VoteRules ==
    [tiebreak_mode : TieBreakMode,
     overvote_rule : OverVoteRule,
     winner_election_mode : WinnerElectionMode,
     number_of_winners : 1..MaxWinners,
     minimum_vote_threshold : {NoneValue} \cup {SomeValue(n) : n \in 1..MaxThreshold},
     max_skipped_rank_allowed : MaxSkippedRank,
     max_rankings_allowed : {NoneValue} \cup {SomeValue(n) : n \in 1..MaxRankings},
     elimination_algorithm : EliminationAlgorithm,
     duplicate_candidate_mode : DuplicateCandidateMode]

\* the rules r with the values of VoteRules::DEFAULT_RULES in the fields that
\* no function of the crate reads
HasDefaults(r) ==
    /\ r.winner_election_mode = "SingelWinnerMajority"
    /\ r.number_of_winners = 1
    /\ r.minimum_vote_threshold = NoneValue
    /\ r.max_rankings_allowed = NoneValue

(***************************************************************************)
(* lib.rs: the private structures.                                         *)
(***************************************************************************)
Filled(cid) == [kind |-> "Filled", cid |-> cid]
BlankOrUndervote == [kind |-> "BlankOrUndervote", cid |-> 0]
Overvote == [kind |-> "Overvote", cid |-> 0]
Undeclared == [kind |-> "Undeclared", cid |-> 0]

RankedChoice(first_valid, rest) ==
    [kind |-> "Some", first_valid |-> first_valid, rest |-> rest]

VoteInternal(rc, count) ==
    [first_valid |-> rc.first_valid, rest |-> rc.rest, count |-> count]

StillRunning == [kind |-> "StillRunning", transfers |-> <<>>, exhausted |-> 0]
Elected == [kind |-> "Elected", transfers |-> <<>>, exhausted |-> 0]
Eliminated(transfers, exhausted) ==
    [kind |-> "Eliminated", transfers |-> transfers, exhausted |-> exhausted]

(***************************************************************************)
(* lib.rs: check_advance_rules.                                            *)
(***************************************************************************)
\* the seen_cids loop of the duplicate policy
HasDuplicateCandidates(initial_slice) ==
    \E i, j \in DOMAIN initial_slice :
        /\ i < j
        /\ initial_slice[i].kind = "Filled"
        /\ initial_slice[j] = initial_slice[i]

\* a variant of the MaxAllowed loop that keeps the start of the block when
\* it meets another element
RECURSIVE MaxAllowedFails_no_reset(_, _, _, _)
MaxAllowedFails_no_reset(initial_slice, rl, idx, start_skipped_block) ==
    IF idx >= Len(initial_slice) THEN FALSE
    ELSE LET choice == initial_slice[idx + 1] IN
         IF /\ choice = BlankOrUndervote
            /\ start_skipped_block # -1
            /\ idx >= start_skipped_block + rl
         THEN TRUE
         ELSE IF choice = BlankOrUndervote /\ start_skipped_block = -1
         THEN MaxAllowedFails_no_reset(initial_slice, rl, idx + 1, idx)
         ELSE MaxAllowedFails_no_reset(initial_slice, rl, idx + 1, start_skipped_block)

\* The loop over initial_slice of the MaxAllowed rule, from (0-based) index
\* idx on.  start_skipped_block is -1 for None.
RECURSIVE MaxAllowedFails(_, _, _, _)
MaxAllowedFails(initial_slice, rl, idx, start_skipped_block) ==
    IF idx >= Len(initial_slice) THEN FALSE
    ELSE LET choice == initial_slice[idx + 1] IN
         IF /\ choice = BlankOrUndervote
            /\ start_skipped_block # -1
            /\ idx >= start_skipped_block + rl
         THEN TRUE
         ELSE IF choice = BlankOrUndervote /\ start_skipped_block = -1
         THEN MaxAllowedFails(initial_slice, rl, idx + 1, idx)
         ELSE MaxAllowedFails(initial_slice, rl, idx + 1, -1)

\* a variant of check_advance_rules without the overvote rule
check_advance_rules_no_overvote(initial_slice, duplicate_policy, overvote, skipped_ranks) ==
    IF duplicate_policy = "Exhaust" /\ HasDuplicateCandidates(initial_slice)
    THEN "DuplicateCandidates"
    ELSE IF /\ skipped_ranks = ExhaustOnFirstOccurence
            /\ \E i \in DOMAIN initial_slice : initial_slice[i] = BlankOrUndervote
    THEN "FailSkippedRank"
    ELSE IF /\ skipped_ranks.kind = "MaxAllowed"
            /\ MaxAllowedFails(initial_slice, skipped_ranks.n, 0, -1)
    THEN "FailSkippedRank"
    ELSE "None"

\* a variant of check_advance_rules without the duplicate rule
check_advance_rules_no_duplicate(initial_slice, duplicate_policy, overvote, skipped_ranks) ==
    IF /\ \E i \in DOMAIN initial_slice : initial_slice[i] = Overvote
       /\ overvote = "ExhaustImmediately"
    THEN "FailOvervote"
    ELSE IF /\ skipped_ranks = ExhaustOnFirstOccurence
            /\ \E i \in DOMAIN initial_slice : initial_slice[i] = BlankOrUndervote
    THEN "FailSkippedRank"
    ELSE IF /\ skipped_ranks.kind = "MaxAllowed"
            /\ MaxAllowedFails(initial_slice, skipped_ranks.n, 0, -1)
    THEN "FailSkippedRank"
    ELSE "None"

check_advance_rules(initial_slice, duplicate_policy, overvote, skipped_ranks) ==
    IF duplicate_policy = "Exhaust" /\ HasDuplicateCandidates(initial_slice)
    THEN "DuplicateCandidates"
    ELSE IF /\ \E i \in DOMAIN initial_slice : initial_slice[i] = Overvote
            /\ overvote = "ExhaustImmediately"
    THEN "FailOvervote"
    ELSE IF /\ skipped_ranks = ExhaustOnFirstOccurence
            /\ \E i \in DOMAIN initial_slice : initial_slice[i] = BlankOrUndervote
    THEN "FailSkippedRank"
    ELSE IF /\ skipped_ranks.kind = "MaxAllowed"
            /\ MaxAllowedFails(initial_slice, skipped_ranks.n, 0, -1)
    THEN "FailSkippedRank"
    ELSE "None"

(***************************************************************************)
(* lib.rs: advance_voting, advance_voting_initial, filtered_candidate.     *)
(***************************************************************************)
\* find_map over the enumerated choices: the first position accepted by stop
FirstIndex(hits) ==
    IF hits = {} THEN 0 ELSE CHOOSE i \in hits : \A j \in hits : i <= j

advance_voting(choices, still_valid, duplicate_policy, overvote, skipped_ranks) ==
    LET stop(c) == c.kind = "Filled" /\ c.cid \in still_valid
        idx == FirstIndex({i \in DOMAIN choices : stop(choices[i])})
    IN IF idx = 0 THEN NoneValue
       ELSE IF check_advance_rules(SubSeq(choices, 1, idx - 1), duplicate_policy,
                                   overvote, skipped_ranks) # "None"
       THEN NoneValue
       ELSE RankedChoice(choices[idx].cid, SubSeq(choices, idx + 1, Len(choices)))

\* Some(final_slice) is [kind |-> "Some", slice |-> final_slice]
advance_voting_initial(choices, still_valid, duplicate_policy, overvote, skipped_ranks) ==
    LET stop(c) == \/ c.kind = "Filled" /\ c.cid \in still_valid
                   \/ c = Undeclared
        idx == FirstIndex({i \in DOMAIN choices : stop(choices[i])})
    IN IF idx = 0 THEN NoneValue
       ELSE IF check_advance_rules(SubSeq(choices, 1, idx - 1), duplicate_policy,
                                   overvote, skipped_ranks) # "None"
       THEN NoneValue
       ELSE [kind |-> "Some", slice |-> SubSeq(choices, idx, Len(choices))]

\* a variant of filtered_candidate that moves to the next ranked candidate
\* whether or not that candidate is still running
filtered_candidate_next(self, still_valid, duplicate_policy, overvote, skipped_ranks) ==
    IF self.first_valid \in still_valid
    THEN RankedChoice(self.first_valid, self.rest)
    ELSE advance_voting(self.rest,
                        {c.cid : c \in {d \in Range(self.rest) : d.kind = "Filled"}},
                        duplicate_policy, overvote, skipped_ranks)

filtered_candidate(self, still_valid, duplicate_policy, overvote, skipped_ranks) ==
    IF self.first_valid \in still_valid
    THEN RankedChoice(self.first_valid, self.rest)
    ELSE advance_voting(<<Filled(self.first_valid)>> \o self.rest, still_valid,
                        duplicate_policy, overvote, skipped_ranks)

(***************************************************************************)
(* lib.rs: checks, the validator.                                          *)
(***************************************************************************)
\* the HashMap `candidates`: collecting (name, idx + 1) keeps the last index
\* of a name
CandidateNames(reg_candidates) == {reg_candidates[i].name : i \in DOMAIN reg_candidates}

CandidateIdOf(reg_candidates, name) ==
    CHOOSE i \in DOMAIN reg_candidates :
        /\ reg_candidates[i].name = name
        /\ \A j \in DOMAIN reg_candidates : reg_candidates[j].name = name => j <= i

valid_cids(reg_candidates) ==
    {CandidateIdOf(reg_candidates, n) : n \in CandidateNames(reg_candidates)}

blacklisted_candidates(reg_candidates) ==
    {reg_candidates[i].name : i \in {j \in DOMAIN reg_candidates : reg_candidates[j].excluded}}

\* a variant of the match that reads a name that is not registered as a blank
ToChoice_unknown_blank(c, reg_candidates) ==
    IF c.kind = "Candidate"
    THEN IF c.name \in CandidateNames(reg_candidates)
         THEN Filled(CandidateIdOf(reg_candidates, c.name))
         ELSE BlankOrUndervote
    ELSE IF c.kind \in {"Blank", "Undervote"} THEN BlankOrUndervote
    ELSE IF c.kind = "Overvote" THEN Overvote
    ELSE Undeclared

\* the match on each BallotChoice
ToChoice(c, reg_candidates) ==
    IF c.kind = "Candidate"
    THEN IF c.name \in CandidateNames(reg_candidates)
         THEN Filled(CandidateIdOf(reg_candidates, c.name))
         ELSE Undeclared
    ELSE IF c.kind \in {"Blank", "Undervote"} THEN BlankOrUndervote
    ELSE IF c.kind = "Overvote" THEN Overvote
    ELSE Undeclared

ToChoices(v, reg_candidates) ==
    [i \in DOMAIN v.candidates |-> ToChoice(v.candidates[i], reg_candidates)]

Discarded(count) ==
    [bucket |-> "discarded", first_valid |-> 0, rest |-> <<>>, count |-> count]

\* the ballot whose initial advance starts with Undeclared
CheckUwiBallot(initial_advance, count, reg_candidates, rules) ==
    LET adv == advance_voting(initial_advance, valid_cids(reg_candidates),
                   rules.duplicate_candidate_mode, rules.overvote_rule,
                   rules.max_skipped_rank_allowed)
    IN IF adv.kind = "Some"
       THEN [bucket |-> "uwi_validated_votes", first_valid |-> adv.first_valid,
             rest |-> adv.rest, count |-> count]
       ELSE [bucket |-> "uwi_exhausted_first_round", first_valid |-> 0,
             rest |-> <<>>, count |-> count]

\* the body of the loop over coll: where one ballot goes
CheckBallot(v, reg_candidates, rules) ==
    LET initial_advance_opt ==
            advance_voting_initial(ToChoices(v, reg_candidates),
                valid_cids(reg_candidates), rules.duplicate_candidate_mode,
                rules.overvote_rule, rules.max_skipped_rank_allowed)
    IN IF initial_advance_opt.kind = "None" THEN Discarded(v.count)
       ELSE IF initial_advance_opt.slice[1].kind = "Filled"
       THEN [bucket |-> "validated_votes",
             first_valid |-> initial_advance_opt.slice[1].cid,
             rest |-> Tail(initial_advance_opt.slice), count |-> v.count]
       ELSE CheckUwiBallot(initial_advance_opt.slice, v.count, reg_candidates, rules)

\* the ballots of coll that went to `bucket`, in the order of coll
RECURSIVE BucketVotes(_, _, _, _)
BucketVotes(coll, reg_candidates, rules, bucket) ==
    IF coll = <<>> THEN <<>>
    ELSE LET r == CheckBallot(Head(coll), reg_candidates, rules)
             rest == BucketVotes(Tail(coll), reg_candidates, rules, bucket)
         IN IF r.bucket = bucket
            THEN <<[first_valid |-> r.first_valid, rest |-> r.rest, count |-> r.count]>>
                 \o rest
            ELSE rest

\* unimplemented!("blacklisted not implemented")
ChecksPanics(coll, reg_candidates) ==
    \E i \in DOMAIN coll : \E k \in DOMAIN coll[i].candidates :
        /\ coll[i].candidates[k].kind = "Candidate"
        /\ coll[i].candidates[k].name \in blacklisted_candidates(reg_candidates)

SumCounts(votes) == SumOver(DOMAIN votes, [i \in DOMAIN votes |-> votes[i].count])

checks(coll, reg_candidates, rules) ==
    [votes |-> BucketVotes(coll, reg_candidates, rules, "validated_votes"),
     uwi_first_votes |-> BucketVotes(coll, reg_candidates, rules, "uwi_validated_votes"),
     candidates |-> [i \in DOMAIN reg_candidates |->
                        [name |-> reg_candidates[i].name,
                         cid |-> CandidateIdOf(reg_candidates, reg_candidates[i].name)]],
     count_exhausted_uwi_first_round |->
        SumOver({i \in DOMAIN coll :
                    CheckBallot(coll[i], reg_candidates, rules).bucket
                        = "uwi_exhausted_first_round"},
                [i \in DOMAIN coll |-> coll[i].count])]

(***************************************************************************)
(* lib.rs: compute_tally, get_threshold.                                   *)
(***************************************************************************)
\* candidate_names is a sequence of (name, cid) pairs
Cids(candidate_names) == {candidate_names[i].cid : i \in DOMAIN candidate_names}

\* a variant of compute_tally whose loop stops before the last ballot
compute_tally_short(votes, candidate_names) ==
    [cid \in Cids(candidate_names) |->
        SumOver({i \in 1..(Len(votes) - 1) : votes[i].first_valid = cid},
                [i \in DOMAIN votes |-> votes[i].count])]

compute_tally(votes, candidate_names) ==
    [cid \in Cids(candidate_names) |->
        SumOver({i \in DOMAIN votes : votes[i].first_valid = cid},
                [i \in DOMAIN votes |-> votes[i].count])]

\* a variant of get_threshold that forgets the "+ 1"
get_threshold_half(tally) ==
    LET total_count == SumOver(DOMAIN tally, tally)
    IN IF total_count = 0 THEN 0 ELSE total_count \div 2

get_threshold(tally) ==
    LET total_count == SumOver(DOMAIN tally, tally)
    IN IF total_count = 0 THEN 0 ELSE (total_count \div 2) + 1

(***************************************************************************)
(* lib.rs: the elimination of candidates.                                  *)
(***************************************************************************)
Perms(S) == {f \in [1..Cardinality(S) -> S] : \A i, j \in DOMAIN f : f[i] = f[j] => i = j}

\* the sequence of the elements of S in the strict total order less, a set
\* of pairs
SortedSeq(S, less) ==
    CHOOSE f \in Perms(S) : \A i, j \in DOMAIN f : i < j => <<f[j], f[i]>> \notin less

Reverse(s) == [i \in DOMAIN s |-> s[Len(s) + 1 - i]]

\* sorted_tally of find_eliminated_candidates_batch: a stable sort by tally of
\* the entries of a HashMap, whose order is unspecified; every outcome
SortedTallies(tally) ==
    {f \in Perms(DOMAIN tally) : \A i, j \in DOMAIN f : i < j => tally[f[i]] <= tally[f[j]]}

\* sorted_tally is one of SortedTallies(tally)
\* a variant of find_eliminated_candidates_batch that cuts one candidate late
find_eliminated_candidates_batch_wide(tally, sorted_tally) ==
    LET previous_cum_count(k) ==
            SumOver(1..(k - 1), [i \in DOMAIN sorted_tally |-> tally[sorted_tally[i]]])
        gaps == {k \in DOMAIN sorted_tally : previous_cum_count(k) < tally[sorted_tally[k]]}
        idx == (CHOOSE k \in gaps : \A l \in gaps : l <= k) - 1
    IN IF gaps # {} /\ idx > 0
       THEN [kind |-> "Some", v |-> SubSeq(sorted_tally, 1, idx + 1)]
       ELSE NoneValue

\* a variant of find_eliminated_candidates_batch that takes the first gap in
\* place of the last
find_eliminated_candidates_batch_first(tally, sorted_tally) ==
    LET previous_cum_count(k) ==
            SumOver(1..(k - 1), [i \in DOMAIN sorted_tally |-> tally[sorted_tally[i]]])
        gaps == {k \in DOMAIN sorted_tally : previous_cum_count(k) < tally[sorted_tally[k]]}
        idx == (CHOOSE k \in gaps : \A l \in gaps : k <= l) - 1
    IN IF gaps # {} /\ idx > 0
       THEN [kind |-> "Some", v |-> SubSeq(sorted_tally, 1, idx)]
       ELSE NoneValue

\* a variant of find_eliminated_candidates_batch whose gaps include the
\* candidates that only equal the cumulative count before them
find_eliminated_candidates_batch_loose(tally, sorted_tally) ==
    LET previous_cum_count(k) ==
            SumOver(1..(k - 1), [i \in DOMAIN sorted_tally |-> tally[sorted_tally[i]]])
        gaps == {k \in DOMAIN sorted_tally : previous_cum_count(k) <= tally[sorted_tally[k]]}
        idx == (CHOOSE k \in gaps : \A l \in gaps : l <= k) - 1
    IN IF gaps # {} /\ idx > 0
       THEN [kind |-> "Some", v |-> SubSeq(sorted_tally, 1, idx)]
       ELSE NoneValue

find_eliminated_candidates_batch(tally, sorted_tally) ==
    LET previous_cum_count(k) ==
            SumOver(1..(k - 1), [i \in DOMAIN sorted_tally |-> tally[sorted_tally[i]]])
        gaps == {k \in DOMAIN sorted_tally : previous_cum_count(k) < tally[sorted_tally[k]]}
        \* the 0-based index of the last gap
        idx == (CHOOSE k \in gaps : \A l \in gaps : l <= k) - 1
    IN IF gaps # {} /\ idx > 0
       THEN [kind |-> "Some", v |-> SubSeq(sorted_tally, 1, idx)]
       ELSE NoneValue

\* the decimal digits of n, as character codes
RECURSIVE Digits(_)
Digits(n) == IF n < 10 THEN <<48 + n>> ELSE Digits(n \div 10) \o <<48 + (n % 10)>>

\* format!("{:08}", n)
RECURSIVE PadLeft(_, _)
PadLeft(s, width) == IF Len(s) >= width THEN s ELSE PadLeft(<<48>> \o s, width)

Pad8(n) == PadLeft(Digits(n), 8)

\* a variant of candidate_permutation_crypto that leaves out the sort by key
\* and keeps the candidates in the order of their ids
candidate_permutation_crypto_unsorted(candidates, seed, num_round) ==
    LET less == {pq \in candidates \X candidates : pq[1].cid < pq[2].cid}
        sorted == SortedSeq(candidates, less)
    IN [i \in DOMAIN sorted |-> sorted[i].cid]

\* a variant of candidate_permutation_crypto whose order turns with the seed
\* and the round: the sorted candidates, rotated by seed + num_round
candidate_permutation_crypto_turned(candidates, seed, num_round) ==
    LET data(p) == Pad8(seed) \o Pad8(num_round) \o p.name
        less == {pq \in candidates \X candidates : LexLess(data(pq[1]), data(pq[2]))}
        sorted == SortedSeq(candidates, less)
    IN [i \in DOMAIN sorted |-> sorted[((i - 1 + seed + num_round) % Len(sorted)) + 1].cid]

\* candidates is a set of (cid, name) pairs with distinct keys
candidate_permutation_crypto(candidates, seed, num_round) ==
    LET data(p) == Pad8(seed) \o Pad8(num_round) \o p.name
        less == {pq \in candidates \X candidates : LexLess(data(pq[1]), data(pq[2]))}
        sorted == SortedSeq(candidates, less)
    IN [i \in DOMAIN sorted |-> sorted[i].cid]

\* the index of cid in the HashMap candidate_order: collecting (cid, idx)
\* keeps the last index of a cid
candidate_order(candidate_names, cid) ==
    CHOOSE i \in DOMAIN candidate_names :
        /\ candidate_names[i].cid = cid
        /\ \A j \in DOMAIN candidate_names : candidate_names[j].cid = cid => j <= i

\* cand_with_names: the first (name, cid) pair of each cid
cand_with_names(candidate_names, all_smallest) ==
    {candidate_names[CHOOSE i \in DOMAIN candidate_names :
        /\ candidate_names[i].cid = cid
        /\ \A j \in DOMAIN candidate_names : candidate_names[j].cid = cid => i <= j] :
     cid \in all_smallest}

\* the tied candidates in the order of the tie-break mode
\* a variant of TiebreakOrder that leaves out the reverse()
TiebreakOrder_unreversed(all_smallest, tiebreak, candidate_names, num_round) ==
    IF tiebreak.kind = "UseCandidateOrder"
    THEN LET order_less ==
                 {cd \in all_smallest \X all_smallest :
                     candidate_order(candidate_names, cd[1])
                         < candidate_order(candidate_names, cd[2])}
         IN SortedSeq(all_smallest, order_less)
    ELSE candidate_permutation_crypto(cand_with_names(candidate_names, all_smallest),
                                      tiebreak.seed, num_round)

TiebreakOrder(all_smallest, tiebreak, candidate_names, num_round) ==
    IF tiebreak.kind = "UseCandidateOrder"
    THEN LET order_less ==
                 {cd \in all_smallest \X all_smallest :
                     candidate_order(candidate_names, cd[1])
                         < candidate_order(candidate_names, cd[2])}
         IN Reverse(SortedSeq(all_smallest, order_less))
    ELSE candidate_permutation_crypto(cand_with_names(candidate_names, all_smallest),
                                      tiebreak.seed, num_round)

\* truncate(1), then the retain that keeps the last candidate of sc
SelectOne(sc, tally) ==
    IF Len(sc) = Cardinality(DOMAIN tally)
    THEN SelectSeq(SubSeq(sc, 1, 1), LAMBDA cid : cid # sc[Len(sc)])
    ELSE SubSeq(sc, 1, 1)

AllSmallest(tally) ==
    {cid \in DOMAIN tally : \A other \in DOMAIN tally : tally[cid] <= tally[other]}

\* a variant of find_eliminated_candidates_single that reports every
\* elimination as Clean
find_eliminated_candidates_single_clean(tally, tiebreak, candidate_names, num_round) ==
    IF DOMAIN tally = {} THEN NoneValue
    ELSE IF Cardinality(DOMAIN tally) = 1 THEN NoneValue
    ELSE IF Cardinality(AllSmallest(tally)) = 1
    THEN [kind |-> "Some", v |-> <<CHOOSE c \in AllSmallest(tally) : TRUE>>, tb |-> "Clean"]
    ELSE [kind |-> "Some",
          v |-> SelectOne(TiebreakOrder(AllSmallest(tally), tiebreak, candidate_names,
                                        num_round), tally),
          tb |-> "Clean"]

find_eliminated_candidates_single(tally, tiebreak, candidate_names, num_round) ==
    IF DOMAIN tally = {} THEN NoneValue
    ELSE IF Cardinality(DOMAIN tally) = 1 THEN NoneValue
    ELSE IF Cardinality(AllSmallest(tally)) = 1
    THEN [kind |-> "Some", v |-> <<CHOOSE c \in AllSmallest(tally) : TRUE>>, tb |-> "Clean"]
    ELSE [kind |-> "Some",
          v |-> SelectOne(TiebreakOrder(AllSmallest(tally), tiebreak, candidate_names,
                                        num_round), tally),
          tb |-> "TiebreakOccured"]

\* sorted_tally is the outcome of the sort of find_eliminated_candidates_batch
find_eliminated_candidates(tally, rules, candidate_names, num_round, sorted_tally) ==
    LET batch == IF rules.elimination_algorithm = "Batch"
                 THEN find_eliminated_candidates_batch(tally, sorted_tally)
                 ELSE NoneValue
        single == find_eliminated_candidates_single(tally, rules.tiebreak_mode,
                                                    candidate_names, num_round)
    IN IF batch.kind = "Some"
       THEN [kind |-> "Ok", v |-> batch.v, tb |-> "Clean"]
       ELSE IF single.kind = "Some"
       THEN [kind |-> "Ok", v |-> single.v, tb |-> single.tb]
       ELSE [kind |-> "Err", error |-> "EmptyElection"]

(***************************************************************************)
(* lib.rs: run_first_round_uwi and run_one_round.                          *)
(***************************************************************************)
NoUwiStats == [kind |-> "None", transfers |-> <<>>, exhausted |-> 0]
SomeUwiStats(transfers, exhausted) ==
    [kind |-> "Some", transfers |-> transfers, exhausted |-> exhausted]

\* a variant of run_first_round_uwi whose tally already counts the
\* UWI-first ballots
run_first_round_uwi_counted(votes, uwi_first_votes, uwi_first_exhausted, candidate_names) ==
    LET tally == compute_tally(votes \o uwi_first_votes, candidate_names)
        targets == {uwi_first_votes[i].first_valid : i \in DOMAIN uwi_first_votes}
        elimination_stats ==
            [cid \in targets |->
                SumOver({i \in DOMAIN uwi_first_votes :
                            uwi_first_votes[i].first_valid = cid},
                        [i \in DOMAIN uwi_first_votes |-> uwi_first_votes[i].count])]
    IN [kind |-> "Ok",
        votes |-> votes \o uwi_first_votes,
        stats |-> [candidate_stats |->
                      [cid \in DOMAIN tally |->
                          [count |-> tally[cid], status |-> StillRunning]],
                   uwi_elimination_stats |->
                      SomeUwiStats(elimination_stats, uwi_first_exhausted)],
        vote_threshold |-> 0]

run_first_round_uwi(votes, uwi_first_votes, uwi_first_exhausted, candidate_names) ==
    LET tally == compute_tally(votes, candidate_names)
        targets == {uwi_first_votes[i].first_valid : i \in DOMAIN uwi_first_votes}
        elimination_stats ==
            [cid \in targets |->
                SumOver({i \in DOMAIN uwi_first_votes :
                            uwi_first_votes[i].first_valid = cid},
                        [i \in DOMAIN uwi_first_votes |-> uwi_first_votes[i].count])]
    IN [kind |-> "Ok",
        votes |-> votes \o uwi_first_votes,
        stats |-> [candidate_stats |->
                      [cid \in DOMAIN tally |->
                          [count |-> tally[cid], status |-> StillRunning]],
                   uwi_elimination_stats |->
                      SomeUwiStats(elimination_stats, uwi_first_exhausted)],
        vote_threshold |-> 0]

\* new_rank of each vote, by its position in votes
NewRanks(votes, rules, remaining_candidates) ==
    [i \in DOMAIN votes |->
        filtered_candidate(votes[i], remaining_candidates,
            rules.duplicate_candidate_mode, rules.overvote_rule,
            rules.max_skipped_rank_allowed)]

\* the positions of the votes whose head is cid and that exhaust
ExhaustedVotes(votes, new_rank, cid) ==
    {i \in DOMAIN votes : votes[i].first_valid = cid /\ new_rank[i].kind = "None"}

\* the positions of the votes that move from cid to another head
TransferedVotes(votes, new_rank, cid) ==
    {i \in DOMAIN votes :
        /\ votes[i].first_valid = cid
        /\ new_rank[i].kind = "Some"
        /\ new_rank[i].first_valid # cid}

\* a variant of EliminationStats that also counts the transfered weight as
\* exhausted
EliminationStats_all(votes, new_rank, eliminated_candidates) ==
    LET counts == [i \in DOMAIN votes |-> votes[i].count]
        touched == {cid \in {votes[i].first_valid : i \in DOMAIN votes} :
                       \/ ExhaustedVotes(votes, new_rank, cid) # {}
                       \/ TransferedVotes(votes, new_rank, cid) # {}}
    IN [cid \in eliminated_candidates \cup touched |->
           Eliminated(
               [to \in {new_rank[i].first_valid :
                           i \in TransferedVotes(votes, new_rank, cid)} |->
                   SumOver({i \in TransferedVotes(votes, new_rank, cid) :
                               new_rank[i].first_valid = to}, counts)],
               SumOver(ExhaustedVotes(votes, new_rank, cid)
                           \cup TransferedVotes(votes, new_rank, cid), counts))]

\* a variant of EliminationStats that leaves the exhausted count at zero
EliminationStats_no_exhausted(votes, new_rank, eliminated_candidates) ==
    LET counts == [i \in DOMAIN votes |-> votes[i].count]
        touched == {cid \in {votes[i].first_valid : i \in DOMAIN votes} :
                       \/ ExhaustedVotes(votes, new_rank, cid) # {}
                       \/ TransferedVotes(votes, new_rank, cid) # {}}
    IN [cid \in eliminated_candidates \cup touched |->
           Eliminated(
               [to \in {new_rank[i].first_valid :
                           i \in TransferedVotes(votes, new_rank, cid)} |->
                   SumOver({i \in TransferedVotes(votes, new_rank, cid) :
                               new_rank[i].first_valid = to}, counts)],
               0)]

\* a variant of EliminationStats that records a transfer under every
\* eliminated candidate
EliminationStats_shared(votes, new_rank, eliminated_candidates) ==
    LET counts == [i \in DOMAIN votes |-> votes[i].count]
        moved == UNION {TransferedVotes(votes, new_rank, cid) : cid \in eliminated_candidates}
    IN [cid \in eliminated_candidates |->
           Eliminated(
               [to \in {new_rank[i].first_valid : i \in moved} |->
                   SumOver({i \in moved : new_rank[i].first_valid = to}, counts)],
               SumOver(ExhaustedVotes(votes, new_rank, cid), counts))]

\* elimination_stats after the filter_map over the votes: the keys are the
\* eliminated candidates and the keys added by .entry(old_first)
EliminationStats(votes, new_rank, eliminated_candidates) ==
    LET counts == [i \in DOMAIN votes |-> votes[i].count]
        touched == {cid \in {votes[i].first_valid : i \in DOMAIN votes} :
                       \/ ExhaustedVotes(votes, new_rank, cid) # {}
                       \/ TransferedVotes(votes, new_rank, cid) # {}}
    IN [cid \in eliminated_candidates \cup touched |->
           Eliminated(
               [to \in {new_rank[i].first_valid :
                           i \in TransferedVotes(votes, new_rank, cid)} |->
                   SumOver({i \in TransferedVotes(votes, new_rank, cid) :
                               new_rank[i].first_valid = to}, counts)],
               SumOver(ExhaustedVotes(votes, new_rank, cid), counts))]

\* a variant of RemVotes that gives every vote kept the count 1
RemVotes_unit(votes, new_rank) ==
    LET kept == SelectSeq([i \in DOMAIN votes |-> i],
                          LAMBDA i : new_rank[i].kind = "Some")
    IN [k \in DOMAIN kept |-> VoteInternal(new_rank[kept[k]], 1)]

\* rem_votes: the votes that are not exhausted, with their new rank
RemVotes(votes, new_rank) ==
    LET kept == SelectSeq([i \in DOMAIN votes |-> i],
                          LAMBDA i : new_rank[i].kind = "Some")
    IN [k \in DOMAIN kept |-> VoteInternal(new_rank[kept[k]], votes[kept[k]].count)]

\* a variant of Winners without the tie-break suppression
Winners_unsuppressed(tally, eliminated_candidates, resolved_tiebreak, vote_threshold) ==
    {cid \in DOMAIN tally \ eliminated_candidates : tally[cid] >= vote_threshold}

\* winners: tie-break suppression, then the threshold
Winners(tally, eliminated_candidates, resolved_tiebreak, vote_threshold) ==
    IF resolved_tiebreak = "Clean"
    THEN {cid \in DOMAIN tally \ eliminated_candidates : tally[cid] >= vote_threshold}
    ELSE {}

CandidateStats(tally, elimination_stats, winners) ==
    [cid \in DOMAIN tally |->
        [count |-> tally[cid],
         status |-> IF cid \in DOMAIN elimination_stats THEN elimination_stats[cid]
                    ELSE IF cid \in winners THEN Elected
                    ELSE StillRunning]]

\* run_one_round once the candidates to eliminate are found
RoundWithEliminated(votes, rules, candidate_names, tally, vote_threshold, p) ==
    LET eliminated_candidates == Range(p.v)
        new_rank == NewRanks(votes, rules, Cids(candidate_names) \ eliminated_candidates)
    IN [kind |-> "Ok",
        votes |-> RemVotes(votes, new_rank),
        stats |-> [candidate_stats |->
                      CandidateStats(tally,
                          EliminationStats(votes, new_rank, eliminated_candidates),
                          Winners(tally, eliminated_candidates, p.tb, vote_threshold)),
                   uwi_elimination_stats |-> NoUwiStats],
        vote_threshold |-> vote_threshold]

\* a variant of run_one_round whose branch of the single candidate returns
\* no ballot
run_one_round_emptied(votes, rules, candidate_names, num_round, sorted_tally) ==
    LET tally == compute_tally(votes, candidate_names)
        vote_threshold == get_threshold(tally)
        p == find_eliminated_candidates(tally, rules, candidate_names, num_round,
                                        sorted_tally)
    IN
    IF Cardinality(DOMAIN tally) = 1
    THEN [kind |-> "Ok",
          votes |-> <<>>,
          stats |-> [candidate_stats |->
                        [cid \in DOMAIN tally |->
                            [count |-> tally[cid], status |-> Elected]],
                     uwi_elimination_stats |-> SomeUwiStats(<<>>, 0)],
          vote_threshold |-> vote_threshold]
    ELSE IF p.kind = "Err" THEN [kind |-> "Err", error |-> p.error]
    ELSE IF Range(p.v) = {} THEN [kind |-> "Err", error |-> "NoCandidateToEliminate"]
    ELSE RoundWithEliminated(votes, rules, candidate_names, tally, vote_threshold, p)

\* a variant of run_one_round without the branch of the single candidate
run_one_round_no_last(votes, rules, candidate_names, num_round, sorted_tally) ==
    LET tally == compute_tally(votes, candidate_names)
        vote_threshold == get_threshold(tally)
        p == find_eliminated_candidates(tally, rules, candidate_names, num_round,
                                        sorted_tally)
    IN
    IF p.kind = "Err" THEN [kind |-> "Err", error |-> p.error]
    ELSE IF Range(p.v) = {} THEN [kind |-> "Err", error |-> "NoCandidateToEliminate"]
    ELSE RoundWithEliminated(votes, rules, candidate_names, tally, vote_threshold, p)

\* sorted_tally is the outcome of the sort of find_eliminated_candidates_batch
run_one_round(votes, rules, candidate_names, num_round, sorted_tally) ==
    LET tally == compute_tally(votes, candidate_names)
        vote_threshold == get_threshold(tally)
        p == find_eliminated_candidates(tally, rules, candidate_names, num_round,
                                        sorted_tally)
    IN
    IF Cardinality(DOMAIN tally) = 1
    THEN [kind |-> "Ok",
          votes |-> votes,
          stats |-> [candidate_stats |->
                        [cid \in DOMAIN tally |->
                            [count |-> tally[cid], status |-> Elected]],
                     uwi_elimination_stats |-> SomeUwiStats(<<>>, 0)],
          vote_threshold |-> vote_threshold]
    ELSE IF p.kind = "Err" THEN [kind |-> "Err", error |-> p.error]
    ELSE IF Range(p.v) = {} THEN [kind |-> "Err", error |-> "NoCandidateToEliminate"]
    ELSE RoundWithEliminated(votes, rules, candidate_names, tally, vote_threshold, p)

(***************************************************************************)
(* The state: a Builder, then the locals of run_voting_stats.              *)
(***************************************************************************)
VARIABLES
    _rules,                 \* Builder._rules
    _candidates,            \* Builder._candidates
    _votes,                 \* Builder._votes
    pc,                     \* "builder", "running" (in the while loop) or "done"
    cr,                     \* the CheckResult
    cur_sorted_candidates,  \* the (name, cid) pairs still running
    cur_votes,
    cur_stats,
    result,                 \* what run_election returned
    trace                   \* history: per round, its inputs and its RoundResult

vars == <<_rules, _candidates, _votes, pc, cr, cur_sorted_candidates, cur_votes,
          cur_stats, result, trace>>

\* while cur_stats.iter().len() < 10000
RoundCap == 10000

NoResult == [kind |-> "None"]
OkResult(winners, threshold) ==
    [kind |-> "Ok", winners |-> winners, threshold |-> threshold]
ErrResult(error) == [kind |-> "Err", error |-> error]
PanicResult(message) == [kind |-> "Panic", message |-> message]

(***************************************************************************)
(* builder.rs                                                              *)
(***************************************************************************)
\* the candidate record of Builder::candidates and candidates_from_ballots
NewCandidate(name) == [name |-> name, excluded |-> FALSE]

SomeCandidates(cands) == [kind |-> "Some", v |-> cands]

\* Builder::add_vote_2
add_vote_2(vote) ==
    /\ pc = "builder"
    /\ _votes' = Append(_votes, vote)
    /\ UNCHANGED <<_rules, _candidates, pc, cr, cur_sorted_candidates, cur_votes,
                   cur_stats, result, trace>>

(***************************************************************************)
(* lib.rs: run_election, run_voting_stats.                                 *)
(***************************************************************************)
candidates_from_ballots(ballots) ==
    LET cand_set ==
            {c.name : c \in {x \in UNION {Range(ballots[i].candidates) : i \in DOMAIN ballots} :
                                x.kind = "Candidate"}}
        cand_vec == SortedSeq(cand_set, {st \in cand_set \X cand_set : LexLess(st[1], st[2])})
    IN [i \in DOMAIN cand_vec |-> NewCandidate(cand_vec[i])]

\* run_election up to the while loop: the candidates, checks, the locals
run_election ==
    /\ pc = "builder"
    /\ LET candidates ==
               IF _candidates.kind = "Some" THEN _candidates.v
               ELSE candidates_from_ballots(_votes)
       IN IF ChecksPanics(_votes, candidates)
          THEN /\ pc' = "done"
               /\ result' = PanicResult("blacklisted not implemented")
               /\ UNCHANGED <<cr, cur_sorted_candidates, cur_votes>>
          ELSE /\ pc' = "running"
               /\ cr' = checks(_votes, candidates, _rules)
               /\ cur_sorted_candidates' = cr'.candidates
               /\ cur_votes' = cr'.votes
               /\ UNCHANGED result
    /\ UNCHANGED <<_rules, _candidates, _votes, cur_stats, trace>>

has_initial_uwis ==
    /\ cur_stats = <<>>
    /\ \/ cr.uwi_first_votes # <<>>
       \/ cr.count_exhausted_uwi_first_round > 0

\* a variant of Survivors that keeps the candidates marked as eliminated
Survivors_all(candidate_names, stats) == candidate_names

\* survivors: the candidates the round did not mark Eliminated
Survivors(candidate_names, stats) ==
    SelectSeq(candidate_names,
        LAMBDA p : ~(p.cid \in DOMAIN stats /\ stats[p.cid].status.kind = "Eliminated"))

ElectedIn(stats) == {cid \in DOMAIN stats : stats[cid].status.kind = "Elected"}

\* candidates_by_id.get(&cid)
candidates_by_id(all_candidates, cid) ==
    all_candidates[CHOOSE j \in DOMAIN all_candidates : all_candidates[j].cid = cid].name

\* the end of the loop body: the two assertions, then the check for a winner
EndOfRound(stats, survivors, initial_uwis, vote_threshold) ==
    IF /\ ~initial_uwis
       /\ ~(\/ \A cid \in DOMAIN stats : stats[cid].status.kind = "Elected"
            \/ Len(survivors) < Len(cur_sorted_candidates))
    THEN /\ pc' = "done"
         /\ result' = PanicResult("The number of candidates did not decrease")
         /\ UNCHANGED cur_sorted_candidates
    ELSE IF DOMAIN stats = {}
    THEN /\ pc' = "done"
         /\ result' = PanicResult("assertion failed: !stats.is_empty()")
         /\ cur_sorted_candidates' = survivors
    ELSE IF ElectedIn(stats) # {}
    THEN /\ pc' = "done"
         \* winner_names, a Vec of distinct names, as a set
         /\ result' = OkResult({candidates_by_id(cr.candidates, cid) :
                                   cid \in ElectedIn(stats)}, vote_threshold)
         /\ cur_sorted_candidates' = survivors
    ELSE /\ pc' = "running"
         /\ UNCHANGED result
         /\ cur_sorted_candidates' = survivors

\* the body of the while loop after the round: round_res is the RoundResult
\* or the error of the round
AfterRound(round_res, initial_uwis) ==
    IF round_res.kind = "Err"
    THEN /\ pc' = "done"
         /\ result' = ErrResult(round_res.error)
         /\ UNCHANGED <<cur_votes, cur_stats, cur_sorted_candidates>>
    ELSE /\ cur_votes' = round_res.votes
         /\ cur_stats' = Append(cur_stats, round_res.stats)
         /\ EndOfRound(round_res.stats.candidate_stats,
                       Survivors(cur_sorted_candidates, round_res.stats.candidate_stats),
                       initial_uwis, round_res.vote_threshold)

TraceEntry(normal, round_res) ==
    [normal |-> normal, votes |-> cur_votes, candidate_names |-> cur_sorted_candidates,
     round_res |-> round_res]

\* one iteration of the while loop: the first round with undeclared write-ins
FirstRoundUwi ==
    /\ pc = "running"
    /\ has_initial_uwis
    /\ IF Len(cur_stats) < RoundCap
       THEN LET round_res == run_first_round_uwi(cur_votes, cr.uwi_first_votes,
                                 cr.count_exhausted_uwi_first_round,
                                 cur_sorted_candidates)
            IN /\ AfterRound(round_res, TRUE)
               /\ trace' = Append(trace, TraceEntry(FALSE, round_res))
       ELSE /\ pc' = "done"
            /\ result' = ErrResult("NoConvergence")
            /\ UNCHANGED <<cur_votes, cur_stats, cur_sorted_candidates, trace>>
    /\ UNCHANGED <<_rules, _candidates, _votes, cr>>

\* one iteration of the while loop: a normal round
OneRound ==
    /\ pc = "running"
    /\ ~has_initial_uwis
    /\ IF Len(cur_stats) < RoundCap
       THEN \E sorted_tally \in
                SortedTallies(compute_tally(cur_votes, cur_sorted_candidates)) :
                LET round_res == run_one_round(cur_votes, _rules, cur_sorted_candidates,
                                     Len(cur_stats) + 1, sorted_tally)
                IN /\ AfterRound(round_res, FALSE)
                   /\ trace' = Append(trace, TraceEntry(TRUE, round_res))
       ELSE /\ pc' = "done"
            /\ result' = ErrResult("NoConvergence")
            /\ UNCHANGED <<cur_votes, cur_stats, cur_sorted_candidates, trace>>
    /\ UNCHANGED <<_rules, _candidates, _votes, cr>>

(***************************************************************************)
(* lib.rs: run_voting_stats as a function of its arguments.  The value is  *)
(* the set of the results the call can return: one for each order in which *)
(* the tallies of equal count can come out of the HashMap.                 *)
(***************************************************************************)
\* has_initial_uwis, from the locals
HasInitialUwis(c_r, n_stats) ==
    /\ n_stats = 0
    /\ \/ c_r.uwi_first_votes # <<>>
       \/ c_r.count_exhausted_uwi_first_round > 0

\* the RoundResult of one iteration, or the error of the round
RoundResults(rules, c_r, sorted_candidates, votes, n_stats) ==
    IF HasInitialUwis(c_r, n_stats)
    THEN {run_first_round_uwi(votes, c_r.uwi_first_votes,
                              c_r.count_exhausted_uwi_first_round, sorted_candidates)}
    ELSE {run_one_round(votes, rules, sorted_candidates, n_stats + 1, sorted_tally) :
              sorted_tally \in SortedTallies(compute_tally(votes, sorted_candidates))}

\* the end of the loop body: the two assertions, then the check for a
\* winner; NoResult when the loop goes on
EndOfRoundResult(all_candidates, sorted_candidates, stats, initial_uwis, vote_threshold) ==
    IF /\ ~initial_uwis
       /\ ~(\/ \A cid \in DOMAIN stats : stats[cid].status.kind = "Elected"
            \/ Len(Survivors(sorted_candidates, stats)) < Len(sorted_candidates))
    THEN PanicResult("The number of candidates did not decrease")
    ELSE IF DOMAIN stats = {}
    THEN PanicResult("assertion failed: !stats.is_empty()")
    ELSE IF ElectedIn(stats) # {}
    THEN OkResult({candidates_by_id(all_candidates, cid) : cid \in ElectedIn(stats)},
                  vote_threshold)
    ELSE NoResult

RECURSIVE run_voting_loop(_, _, _, _, _)
RECURSIVE LoopStep(_, _, _, _, _)

\* what the loop leaves: the value returned and the local cur_stats
LoopExit(res, stats) == [result |-> res, cur_stats |-> stats]

\* the rest of the loop body once the round has run
LoopStep(rules, c_r, sorted_candidates, stats, round_res) ==
    IF round_res.kind = "Err" THEN {LoopExit(ErrResult(round_res.error), stats)}
    ELSE IF EndOfRoundResult(c_r.candidates, sorted_candidates,
                round_res.stats.candidate_stats, HasInitialUwis(c_r, Len(stats)),
                round_res.vote_threshold) # NoResult
    THEN {LoopExit(EndOfRoundResult(c_r.candidates, sorted_candidates,
              round_res.stats.candidate_stats, HasInitialUwis(c_r, Len(stats)),
              round_res.vote_threshold), Append(stats, round_res.stats))}
    ELSE run_voting_loop(rules, c_r,
             Survivors(sorted_candidates, round_res.stats.candidate_stats),
             round_res.votes, Append(stats, round_res.stats))

\* the while loop, from the values of cur_sorted_candidates, cur_votes and
\* cur_stats on
run_voting_loop(rules, c_r, sorted_candidates, votes, stats) ==
    IF Len(stats) >= RoundCap THEN {LoopExit(ErrResult("NoConvergence"), stats)}
    ELSE UNION {LoopStep(rules, c_r, sorted_candidates, stats, round_res) :
                   round_res \in RoundResults(rules, c_r, sorted_candidates, votes, Len(stats))}

\* the candidates of the run
CandidatesOf(coll, candidates_o) ==
    IF candidates_o.kind = "Some" THEN candidates_o.v ELSE candidates_from_ballots(coll)

\* the runs of run_voting_stats: the value returned with the rounds behind it
run_voting_rounds(coll, rules, candidates_o) ==
    IF ChecksPanics(coll, CandidatesOf(coll, candidates_o))
    THEN {LoopExit(PanicResult("blacklisted not implemented"), <<>>)}
    ELSE run_voting_loop(rules, checks(coll, CandidatesOf(coll, candidates_o), rules),
             checks(coll, CandidatesOf(coll, candidates_o), rules).candidates,
             checks(coll, CandidatesOf(coll, candidates_o), rules).votes, <<>>)

run_voting_stats(coll, rules, candidates_o) ==
    {run.result : run \in run_voting_rounds(coll, rules, candidates_o)}

(***************************************************************************)
(* lib.rs: round_results_to_stats, the public statistics of a run.  The    *)
(* candidate_stats of a round and the transfers of a candidate are built   *)
(* by iterating over a HashMap, whose order is unspecified: every order is *)
(* an outcome.                                                             *)
(***************************************************************************)
\* config.rs: EliminationStats, RoundStats, VotingResult
PubEliminationStats(name, transfers, exhausted) ==
    [name |-> name, transfers |-> transfers, exhausted |-> exhausted]

RoundStats(round, tally, elected, eliminated) ==
    [round |-> round, tally |-> tally, tally_results_elected |-> elected,
     tally_result_eliminated |-> eliminated]

VotingResult(winners, threshold, round_stats) ==
    [kind |-> "Ok", winners |-> winners, threshold |-> threshold,
     round_stats |-> round_stats]

\* "Undeclared Write-ins"
UwiName ==
    <<85, 110, 100, 101, 99, 108, 97, 114, 101, 100, 32, 87, 114, 105, 116, 101, 45,
      105, 110, 115>>

\* pub_transfers: the (name, count) pairs of a transfers map, in one of the
\* orders of its iteration
PubTransfers(transfers, all_candidates) ==
    {[i \in DOMAIN p |-> <<candidates_by_id(all_candidates, p[i]), transfers[p[i]]>>] :
        p \in Perms(DOMAIN transfers)}

\* the eliminated candidates that are printed: those with some transfer or
\* some exhausted weight
ListedEliminated(candidate_stats) ==
    {cid \in DOMAIN candidate_stats :
        /\ candidate_stats[cid].status.kind = "Eliminated"
        /\ \/ DOMAIN candidate_stats[cid].status.transfers # {}
           \/ candidate_stats[cid].status.exhausted > 0}

\* one order of the transfers for each printed candidate
TransferOrders(candidate_stats, all_candidates) ==
    {f \in [ListedEliminated(candidate_stats) ->
               UNION {PubTransfers(candidate_stats[cid].status.transfers, all_candidates) :
                         cid \in ListedEliminated(candidate_stats)}] :
        \A cid \in ListedEliminated(candidate_stats) :
            f[cid] \in PubTransfers(candidate_stats[cid].status.transfers, all_candidates)}

\* rs.tally: the candidates in the order ord of candidate_stats, then the
\* undeclared write-ins when they have some weight
PubTally(stats, all_candidates, ord) ==
    LET uwi == stats.uwi_elimination_stats
        uwi_tally == SumOver(DOMAIN uwi.transfers, uwi.transfers) + uwi.exhausted
    IN [i \in DOMAIN ord |-> <<candidates_by_id(all_candidates, ord[i]),
                               stats.candidate_stats[ord[i]].count>>]
       \o (IF uwi.kind = "Some" /\ uwi_tally > 0 THEN <<<<UwiName, uwi_tally>>>> ELSE <<>>)

\* rs.tally_results_elected after its sort
PubElected(stats, all_candidates) ==
    LET names == {candidates_by_id(all_candidates, cid) : cid \in ElectedIn(stats.candidate_stats)}
    IN SortedSeq(names, {st \in names \X names : LexLess(st[1], st[2])})

\* rs.tally_result_eliminated after its sort by name
PubEliminated(stats, all_candidates, tr, ut) ==
    LET uwi == stats.uwi_elimination_stats
        entries ==
            {PubEliminationStats(candidates_by_id(all_candidates, cid), tr[cid],
                                 stats.candidate_stats[cid].status.exhausted) :
                cid \in ListedEliminated(stats.candidate_stats)}
            \cup (IF uwi.kind = "Some"
                  THEN {PubEliminationStats(UwiName, ut, uwi.exhausted)} ELSE {})
    IN SortedSeq(entries, {st \in entries \X entries : LexLess(st[1].name, st[2].name)})

\* the RoundStats of one round, for every order of the maps; every cid of the
\* statistics is a key of candidates_by_id, so that no lookup fails
round_result_to_stat(stats, round_id, all_candidates) ==
    {RoundStats(round_id, PubTally(stats, all_candidates, ord),
                PubElected(stats, all_candidates),
                PubEliminated(stats, all_candidates, tr, ut)) :
        ord \in Perms(DOMAIN stats.candidate_stats),
        tr \in TransferOrders(stats.candidate_stats, all_candidates),
        ut \in PubTransfers(stats.uwi_elimination_stats.transfers, all_candidates)}

RECURSIVE round_results_to_stats(_, _)
round_results_to_stats(results, all_candidates) ==
    IF results = <<>> THEN {<<>>}
    ELSE {Append(res, rs) :
             res \in round_results_to_stats(SubSeq(results, 1, Len(results) - 1),
                                            all_candidates),
             rs \in round_result_to_stat(results[Len(results)], Len(results),
                                         all_candidates)}

\* the return of run_voting_stats once a winner is found: the VotingResult
\* with its round_stats
ReturnVotingResult ==
    /\ pc = "done"
    /\ result.kind = "Ok"
    /\ \E stats \in round_results_to_stats(cur_stats, cr.candidates) :
           result' = VotingResult(result.winners, result.threshold, stats)
    /\ pc' = "returned"
    /\ UNCHANGED <<_rules, _candidates, _votes, cr, cur_sorted_candidates, cur_votes,
                   cur_stats, trace>>

(***************************************************************************)
(* The elections of the model: Builder::new(rules)?.candidates(cands)?,    *)
(* then ballots added with add_vote_2, then run_election.                  *)
(***************************************************************************)
\* the candidate names "A", "B", "C", ...
Name(i) == <<64 + i>>

Registries == {[i \in 1..n |-> NewCandidate(Name(i))] : n \in 1..MaxCands}

BallotChoices(cands) ==
    {Candidate(cands[i].name) : i \in DOMAIN cands} \cup {UndeclaredWriteIn}

Ballots(cands) ==
    {Ballot(c, n) : c \in SeqsUpTo(BallotChoices(cands), MaxLen), n \in 1..MaxCount}

\* The ballots of these elections hold candidates and undeclared write-ins,
\* no overvote and no blank, and at most MaxLen ranks: the overvote, skipped
\* rank and duplicate rules, which have no effect on them, are those of
\* VoteRules::DEFAULT_RULES.
RoundRules ==
    {r \in VoteRules : /\ HasDefaults(r)
                       /\ r.overvote_rule = "AlwaysSkipToNextRank"
                       /\ r.max_skipped_rank_allowed = Unlimited
                       /\ r.duplicate_candidate_mode = "SkipDuplicate"}

Init ==
    /\ _rules \in RoundRules
    /\ _candidates \in {SomeCandidates(r) : r \in Registries}
    /\ _votes = <<>>
    /\ pc = "builder"
    /\ cr = NoneValue
    /\ cur_sorted_candidates = <<>>
    /\ cur_votes = <<>>
    /\ cur_stats = <<>>
    /\ result = NoResult
    /\ trace = <<>>

Next ==
    \/ /\ Len(_votes) < MaxBallots
       /\ \E vote \in Ballots(_candidates.v) :
              /\ SumCounts(_votes) + vote.count <= MaxWeight
              /\ add_vote_2(vote)
    \/ run_election
    \/ FirstRoundUwi
    \/ OneRound

Spec == Init /\ [][Next]_vars

(***************************************************************************)
(* The elections of the ballot rules: the full registry, one ballot of     *)
(* any shape and count 1, then one ballot that ranks a single candidate,   *)
(* under every overvote, skipped rank and duplicate rule.                  *)
(***************************************************************************)
MaxRanks == 4

FullRegistry == [i \in 1..MaxCands |-> NewCandidate(Name(i))]

RankChoices(cands) ==
    {Candidate(cands[i].name) : i \in DOMAIN cands}
        \cup {UndeclaredWriteIn, BallotOvervote, Blank}

ShapedBallots(cands) == {Ballot(c, 1) : c \in SeqsUpTo(RankChoices(cands), MaxRanks)}

SingleBallots(cands) == {Ballot(<<Candidate(cands[i].name)>>, 1) : i \in DOMAIN cands}

BallotRules ==
    {r \in VoteRules : /\ HasDefaults(r)
                       /\ r.tiebreak_mode = UseCandidateOrder
                       /\ r.elimination_algorithm = "Single"}

InitBallot ==
    /\ _rules \in BallotRules
    /\ _candidates = SomeCandidates(FullRegistry)
    /\ _votes = <<>>
    /\ pc = "builder"
    /\ cr = NoneValue
    /\ cur_sorted_candidates = <<>>
    /\ cur_votes = <<>>
    /\ cur_stats = <<>>
    /\ result = NoResult
    /\ trace = <<>>

NextBallot ==
    \/ /\ _votes = <<>>
       /\ \E vote \in ShapedBallots(_candidates.v) : add_vote_2(vote)
    \/ /\ Len(_votes) = 1
       /\ \E vote \in SingleBallots(_candidates.v) : add_vote_2(vote)
    \/ run_election
    \/ FirstRoundUwi
    \/ OneRound

SpecBallot == InitBallot /\ [][NextBallot]_vars

(***************************************************************************)
(* The elections of the validator: one registered candidate and one ballot *)
(* of count 1 and of any shape up to MaxChoices over that candidate, a     *)
(* name that is not registered, the undeclared write-in, the overvote and  *)
(* the blank, under every overvote rule and every skipped rank rule up to  *)
(* MaxAllowed(MaxAllowedN).                                                *)
(***************************************************************************)
MaxChoices == 5

MaxAllowedN == 3

ValidateRegistry == <<NewCandidate(Name(1))>>

ValidateChoices ==
    {Candidate(Name(1)), Candidate(Name(2)), UndeclaredWriteIn, BallotOvervote, Blank}

ValidateBallots == {Ballot(c, 1) : c \in SeqsUpTo(ValidateChoices, MaxChoices)}

ValidateRules ==
    [tiebreak_mode : {UseCandidateOrder},
     overvote_rule : OverVoteRule,
     winner_election_mode : WinnerElectionMode,
     number_of_winners : {1},
     minimum_vote_threshold : {NoneValue},
     max_skipped_rank_allowed :
         {Unlimited, ExhaustOnFirstOccurence} \cup {MaxAllowed(n) : n \in 0..MaxAllowedN},
     max_rankings_allowed : {NoneValue},
     elimination_algorithm : {"Single"},
     duplicate_candidate_mode : {"SkipDuplicate"}]

InitValidate ==
    /\ _rules \in ValidateRules
    /\ _candidates = SomeCandidates(ValidateRegistry)
    /\ _votes = <<>>
    /\ pc = "builder"
    /\ cr = NoneValue
    /\ cur_sorted_candidates = <<>>
    /\ cur_votes = <<>>
    /\ cur_stats = <<>>
    /\ result = NoResult
    /\ trace = <<>>

NextValidate ==
    \/ /\ _votes = <<>>
       /\ \E vote \in ValidateBallots : add_vote_2(vote)
    \/ run_election
    \/ FirstRoundUwi
    \/ OneRound

SpecValidate == InitValidate /\ [][NextValidate]_vars

(***************************************************************************)
(* The elections of the direct call run_voting_stats(coll, rules,          *)
(* candidates_o): no candidate list or a list of up to MaxEdgeCands        *)
(* candidates, excluded or not; up to MaxEdgeBallots ballots of count 0 or *)
(* 1 over the two names and the undeclared write-in; the default rules     *)
(* with any number_of_winners and max_rankings_allowed.                    *)
(***************************************************************************)
MaxEdgeCands == 2

MaxEdgeBallots == 2

EdgeRegistries ==
    UNION {{[i \in 1..n |-> [name |-> Name(i), excluded |-> ex[i]]] :
               ex \in [1..n -> BOOLEAN]} : n \in 0..MaxEdgeCands}

EdgeCandidates == {NoneValue} \cup {SomeCandidates(r) : r \in EdgeRegistries}

EdgeChoices ==
    {Candidate(Name(i)) : i \in 1..MaxEdgeCands} \cup {UndeclaredWriteIn}

EdgeBallots == {Ballot(c, n) : c \in SeqsUpTo(EdgeChoices, MaxLen), n \in 0..1}

EdgeRules ==
    {r \in VoteRules : /\ r.tiebreak_mode = UseCandidateOrder
                       /\ r.overvote_rule = "AlwaysSkipToNextRank"
                       /\ r.minimum_vote_threshold = NoneValue
                       /\ r.max_skipped_rank_allowed = Unlimited
                       /\ r.elimination_algorithm = "Single"
                       /\ r.duplicate_candidate_mode = "SkipDuplicate"}

InitEdge ==
    /\ _rules \in EdgeRules
    /\ _candidates \in EdgeCandidates
    /\ _votes = <<>>
    /\ pc = "builder"
    /\ cr = NoneValue
    /\ cur_sorted_candidates = <<>>
    /\ cur_votes = <<>>
    /\ cur_stats = <<>>
    /\ result = NoResult
    /\ trace = <<>>

NextEdge ==
    \/ /\ Len(_votes) < MaxEdgeBallots
       /\ \E vote \in EdgeBallots : add_vote_2(vote)
    \/ run_election
    \/ FirstRoundUwi
    \/ OneRound

SpecEdge == InitEdge /\ [][NextEdge]_vars

(***************************************************************************)
(* The elections of the batch elimination: MaxBatchCands candidates; one   *)
(* ballot of count 1 that ranks up to MaxRanks candidates, then one ballot *)
(* of count 1 with a single choice, a candidate or the undeclared          *)
(* write-in, then for each candidate in turn at most one ballot of count   *)
(* MaxBlock that ranks this candidate alone; the default rules with Batch  *)
(* and Exhaust.                                                            *)
(***************************************************************************)
MaxBatchCands == 4

MaxBlock == 3

BatchRegistry == [i \in 1..MaxBatchCands |-> NewCandidate(Name(i))]

BatchShaped ==
    {Ballot(c, 1) : c \in SeqsUpTo({Candidate(Name(i)) : i \in 1..MaxBatchCands}, MaxRanks)}

BatchSingle ==
    {Ballot(<<c>>, 1) : c \in {Candidate(Name(i)) : i \in 1..MaxBatchCands}
                                  \cup {UndeclaredWriteIn}}

\* the ballot of count MaxBlock for the i-th candidate alone
BlockBallot(i) == Ballot(<<Candidate(Name(i))>>, MaxBlock)

\* the candidates whose block may be added: those after the last block
NextBlocks ==
    {i \in 1..MaxBatchCands :
        \A k \in 3..Len(_votes) : \A j \in i..MaxBatchCands : _votes[k] # BlockBallot(j)}

BatchRules ==
    {r \in VoteRules : /\ HasDefaults(r)
                       /\ r.tiebreak_mode = UseCandidateOrder
                       /\ r.overvote_rule = "AlwaysSkipToNextRank"
                       /\ r.max_skipped_rank_allowed = Unlimited
                       /\ r.elimination_algorithm = "Batch"
                       /\ r.duplicate_candidate_mode = "Exhaust"}

InitBatch ==
    /\ _rules \in BatchRules
    /\ _candidates = SomeCandidates(BatchRegistry)
    /\ _votes = <<>>
    /\ pc = "builder"
    /\ cr = NoneValue
    /\ cur_sorted_candidates = <<>>
    /\ cur_votes = <<>>
    /\ cur_stats = <<>>
    /\ result = NoResult
    /\ trace = <<>>

NextBatch ==
    \/ /\ _votes = <<>>
       /\ \E vote \in BatchShaped : add_vote_2(vote)
    \/ /\ Len(_votes) = 1
       /\ \E vote \in BatchSingle : add_vote_2(vote)
    \/ /\ Len(_votes) >= 2
       /\ \E i \in NextBlocks : add_vote_2(BlockBallot(i))
    \/ run_election
    \/ FirstRoundUwi
    \/ OneRound

SpecBatch == InitBatch /\ [][NextBatch]_vars

(***************************************************************************)
(* Properties of the rounds, stated on the history of the run.             *)
(***************************************************************************)
\* the rounds that returned a RoundResult
Rounds == {i \in DOMAIN trace : trace[i].round_res.kind = "Ok"}
NormalRounds == {i \in Rounds : trace[i].normal}

StatsOf(i) == trace[i].round_res.stats.candidate_stats
TallyOf(i) == [cid \in DOMAIN StatsOf(i) |-> StatsOf(i)[cid].count]
TallySum(i) == SumOver(DOMAIN StatsOf(i), TallyOf(i))
ThresholdOf(i) == trace[i].round_res.vote_threshold
EliminatedIn(i) == {cid \in DOMAIN StatsOf(i) : StatsOf(i)[cid].status.kind = "Eliminated"}
ExhaustedIn(i) ==
    SumOver(EliminatedIn(i), [cid \in EliminatedIn(i) |-> StatsOf(i)[cid].status.exhausted])
NameOfCid(cid) == _candidates.v[cid].name

\* C1: in every normal round the winning threshold is floor(T/2)+1, where T is
\* the total weight of the ballots the round starts with, which is also the
\* sum of the round's tally; it is 0 when T is 0.
C1_Threshold ==
    \A i \in NormalRounds :
        LET T == SumCounts(trace[i].votes)
        IN /\ TallySum(i) = T
           /\ ThresholdOf(i) = IF T = 0 THEN 0 ELSE (T \div 2) + 1

C1_Witness ==
    \E i \in NormalRounds :
        /\ SumCounts(trace[i].votes) = 3
        /\ ThresholdOf(i) = 2
        /\ Cardinality(DOMAIN StatsOf(i)) >= 2

\* C2: a run that succeeds names at most one winner, and the winner is a
\* registered candidate.
C2_OneRegisteredWinner ==
    result.kind = "Ok" =>
        /\ Cardinality(result.winners) <= 1
        /\ result.winners \subseteq CandidateNames(_candidates.v)

C2_Witness ==
    /\ result.kind = "Ok"
    /\ Cardinality(result.winners) = 1
    /\ cr.uwi_first_votes # <<>>
    /\ Len(trace) >= 3

\* c holds strictly more than half of the tally of round i
HasMajority(i, c) == c \in DOMAIN StatsOf(i) /\ 2 * TallyOf(i)[c] > TallySum(i)

\* C3: a candidate with more than half of the tally of a normal round is not
\* eliminated in that round or later, and is the winner the run returns.
C3_Majority ==
    \A i \in NormalRounds : \A c \in DOMAIN StatsOf(i) :
        HasMajority(i, c) =>
            /\ \A j \in Rounds : j >= i => c \notin EliminatedIn(j)
            /\ pc = "done" => result = OkResult({NameOfCid(c)}, result.threshold)

C3_Witness ==
    \E i \in NormalRounds : \E c \in DOMAIN StatsOf(i) :
        /\ HasMajority(i, c)
        /\ StatsOf(i)[c].status.kind = "StillRunning"
        /\ _rules.tiebreak_mode # UseCandidateOrder
        /\ pc = "done"
        /\ result.kind = "Ok"

\* the batch elimination was used in round i
BatchUsed(i) ==
    /\ _rules.elimination_algorithm = "Batch"
    /\ \E s \in SortedTallies(TallyOf(i)) :
           find_eliminated_candidates_batch(TallyOf(i), s).kind = "Some"

MinTally(i) == {c \in DOMAIN StatsOf(i) : \A d \in DOMAIN StatsOf(i) : TallyOf(i)[c] <= TallyOf(i)[d]}

\* round i eliminates by single elimination and resolves a tie
TieBreakRound(i) ==
    /\ i \in NormalRounds
    /\ Cardinality(DOMAIN StatsOf(i)) >= 2
    /\ ~BatchUsed(i)
    /\ Cardinality(MinTally(i)) >= 2

\* the position of candidate c in the registry
DeclaredAt(c) == CHOOSE k \in DOMAIN _candidates.v : _candidates.v[k].name = NameOfCid(c)

\* C4: under UseCandidateOrder a tie at the minimum in a single-elimination
\* round eliminates exactly one candidate, the tied one declared latest.
C4_LatestDeclaredEliminated ==
    \A i \in DOMAIN trace :
        (TieBreakRound(i) /\ _rules.tiebreak_mode = UseCandidateOrder) =>
            \E c \in MinTally(i) :
                /\ EliminatedIn(i) = {c}
                /\ \A d \in MinTally(i) : DeclaredAt(d) <= DeclaredAt(c)

C4_Witness ==
    \E i \in DOMAIN trace :
        /\ TieBreakRound(i)
        /\ _rules.tiebreak_mode = UseCandidateOrder
        /\ Cardinality(MinTally(i)) = 2
        /\ Cardinality(DOMAIN StatsOf(i)) = 3
        /\ \E c \in MinTally(i) : DeclaredAt(c) = 2 /\ EliminatedIn(i) = {c}

C6_Conservation ==
    /\ \A k \in NormalRounds :
           TallySum(k) + SumOver({j \in NormalRounds : j < k},
                                 [j \in DOMAIN trace |-> ExhaustedIn(j)])
               = SumCounts(cr.votes) + SumCounts(cr.uwi_first_votes)
    /\ \A k \in Rounds :
           LET uwi == trace[k].round_res.stats.uwi_elimination_stats
           IN IF trace[k].normal
              THEN uwi.exhausted = 0
              ELSE /\ k = 1
                   /\ uwi.exhausted = cr.count_exhausted_uwi_first_round
                   /\ SumOver(DOMAIN uwi.transfers, uwi.transfers)
                          = SumCounts(cr.uwi_first_votes)

C6_Witness ==
    /\ Len(trace) >= 3
    /\ ~trace[1].normal
    /\ cr.count_exhausted_uwi_first_round > 0
    /\ cr.uwi_first_votes # <<>>
    /\ \E j \in NormalRounds : j < Len(trace) /\ ExhaustedIn(j) > 0
    /\ Len(trace) \in NormalRounds

\* C7: a candidate marked Eliminated in round k is in no later tally, gets
\* no later transfer and is never Elected.
C7_MonotoneElimination ==
    \A k \in Rounds : \A c \in EliminatedIn(k) :
        /\ \A j \in Rounds : j > k =>
               /\ c \notin DOMAIN StatsOf(j)
               /\ \A e \in EliminatedIn(j) : c \notin DOMAIN StatsOf(j)[e].status.transfers
               /\ \A v \in Range(trace[j].round_res.votes) : v.first_valid # c
        /\ \A j \in Rounds : c \notin ElectedIn(StatsOf(j))
        /\ result.kind = "Ok" => NameOfCid(c) \notin result.winners

C7_Witness ==
    \E k \in Rounds : \E c \in EliminatedIn(k) :
        \E j \in Rounds :
            /\ j > k
            /\ \E e \in EliminatedIn(j) :
                   /\ StatsOf(j)[e].status.exhausted > 0
                   /\ \E v \in Range(trace[j].votes) :
                          v.first_valid = e /\ Filled(c) \in Range(v.rest)

(***************************************************************************)
(* Properties of the ballot rules, stated on the ballot of any shape of    *)
(* SpecBallot: the first ballot of the election.                           *)
(***************************************************************************)
\* the choices of the first ballot
Shaped == ToChoices(_votes[1], _candidates.v)

\* the number of single-candidate ballots for c
SinglesFor(c) ==
    Cardinality({i \in 2..Len(_votes) : _votes[i].candidates = <<Candidate(NameOfCid(c))>>})

\* the first position from `from` on of a candidate of S, 0 when there is none
FirstFilledIn(ch, from, S) ==
    LET hits == {j \in from..Len(ch) : ch[j].kind = "Filled" /\ ch[j].cid \in S}
    IN IF hits = {} THEN 0 ELSE CHOOSE j \in hits : \A l \in hits : j <= l

HasOvervote(s) == \E j \in DOMAIN s : s[j] = Overvote
HasTwice(s) ==
    \E j, l \in DOMAIN s : j < l /\ s[j].kind = "Filled" /\ s[j] = s[l]

\* the position of the first registered candidate of the first ballot
FirstUsable == FirstFilledIn(Shaped, 1, DOMAIN _candidates.v)

\* the election has been validated and the first ballot ranks a candidate
Validated == _votes # <<>> /\ pc # "builder" /\ FirstUsable > 0

EngineWeight == SumCounts(cr.votes) + SumCounts(cr.uwi_first_votes)

\* the first ballot is not given to the engine
NotCounted == EngineWeight = Len(_votes) - 1

\* the first ballot is given to the engine for c and is in the tally of c in
\* the first normal round
CountsFor(c) ==
    /\ EngineWeight = Len(_votes)
    /\ \E v \in Range(cr.votes) \cup Range(cr.uwi_first_votes) :
           /\ v.first_valid = c
           /\ v.rest = SubSeq(Shaped, FirstUsable + 1, Len(Shaped))
    /\ \A i \in NormalRounds :
           (\A j \in NormalRounds : i <= j) => TallyOf(i)[c] = 1 + SinglesFor(c)

\* round i eliminates the candidate the first ballot starts with
HeadEliminated(i) ==
    /\ _votes # <<>>
    /\ Shaped # <<>>
    /\ Shaped[1].kind = "Filled"
    /\ i \in NormalRounds
    /\ Shaped[1].cid \in EliminatedIn(i)

\* the position of the next candidate still running after round i
NextRunning(i) == FirstFilledIn(Shaped, 2, DOMAIN StatsOf(i) \ EliminatedIn(i))

\* the choices from the head up to the next running candidate
Skipped(i) == SubSeq(Shaped, 1, NextRunning(i) - 1)

ExhaustsIn(i) ==
    LET st == StatsOf(i)[Shaped[1].cid].status
    IN /\ DOMAIN st.transfers = {}
       /\ st.exhausted = 1 + SinglesFor(Shaped[1].cid)

TransfersIn(i) ==
    LET st == StatsOf(i)[Shaped[1].cid].status
        n == Shaped[NextRunning(i)].cid
    IN /\ DOMAIN st.transfers = {n}
       /\ st.transfers[n] = 1
       /\ st.exhausted = SinglesFor(Shaped[1].cid)
       /\ \E v \in Range(trace[i].round_res.votes) :
              /\ v.first_valid = n
              /\ v.rest = SubSeq(Shaped, NextRunning(i) + 1, Len(Shaped))

\* the other rules accept the choices s: the rules with the overvote rule
\* set to AlwaysSkipToNextRank
OtherThanOvervoteAccept(s) ==
    check_advance_rules(s, _rules.duplicate_candidate_mode, "AlwaysSkipToNextRank",
                        _rules.max_skipped_rank_allowed) = "None"

\* the rules with the duplicate rule set to SkipDuplicate
OtherThanDuplicateAccept(s) ==
    check_advance_rules(s, "SkipDuplicate", _rules.overvote_rule,
                        _rules.max_skipped_rank_allowed) = "None"

\* C8, as stated: a ballot with an Overvote before its next usable candidate
\* is discarded at validation or exhausted at transfer under
\* ExhaustImmediately, and counts for that candidate under
\* AlwaysSkipToNextRank.
C8_AsStated ==
    /\ (Validated /\ HasOvervote(SubSeq(Shaped, 1, FirstUsable - 1))) =>
           IF _rules.overvote_rule = "ExhaustImmediately"
           THEN NotCounted
           ELSE CountsFor(Shaped[FirstUsable].cid)
    /\ \A i \in DOMAIN trace :
           (HeadEliminated(i) /\ NextRunning(i) > 0 /\ HasOvervote(Skipped(i))) =>
               IF _rules.overvote_rule = "ExhaustImmediately"
               THEN ExhaustsIn(i)
               ELSE TransfersIn(i)

\* C8, amended: the same, where under AlwaysSkipToNextRank the ballot counts
\* for the next usable candidate provided the duplicate and skipped rank
\* rules accept the choices before it.
C8_OvervoteRule ==
    /\ (Validated /\ HasOvervote(SubSeq(Shaped, 1, FirstUsable - 1))) =>
           IF _rules.overvote_rule = "ExhaustImmediately"
           THEN NotCounted
           ELSE IF OtherThanOvervoteAccept(SubSeq(Shaped, 1, FirstUsable - 1))
           THEN CountsFor(Shaped[FirstUsable].cid)
           ELSE NotCounted
    /\ \A i \in DOMAIN trace :
           (HeadEliminated(i) /\ NextRunning(i) > 0 /\ HasOvervote(Skipped(i))) =>
               IF _rules.overvote_rule = "ExhaustImmediately"
               THEN ExhaustsIn(i)
               ELSE IF OtherThanOvervoteAccept(Skipped(i))
               THEN TransfersIn(i)
               ELSE ExhaustsIn(i)

C8_Witness ==
    /\ _rules.overvote_rule = "AlwaysSkipToNextRank"
    /\ _rules.max_skipped_rank_allowed = ExhaustOnFirstOccurence
    /\ _rules.duplicate_candidate_mode = "Exhaust"
    /\ \E i \in DOMAIN trace :
           /\ HeadEliminated(i)
           /\ NextRunning(i) > 0
           /\ Skipped(i) = <<Shaped[1], Overvote>>
           /\ TransfersIn(i)

\* C9, as stated: when the head of a ballot is eliminated and the choices
\* from the head up to the next running candidate hold a candidate twice,
\* the ballot exhausts under Exhaust and transfers to that next candidate
\* under SkipDuplicate.
C9_AsStated ==
    \A i \in DOMAIN trace :
        (HeadEliminated(i) /\ NextRunning(i) > 0 /\ HasTwice(Skipped(i))) =>
            IF _rules.duplicate_candidate_mode = "Exhaust"
            THEN ExhaustsIn(i)
            ELSE TransfersIn(i)

\* C9, amended: the same, where under SkipDuplicate the ballot transfers to
\* the next running candidate provided the overvote and skipped rank rules
\* accept the choices before it, and exhausts otherwise.
C9_DuplicateRule ==
    \A i \in DOMAIN trace :
        (HeadEliminated(i) /\ NextRunning(i) > 0 /\ HasTwice(Skipped(i))) =>
            IF _rules.duplicate_candidate_mode = "Exhaust"
            THEN ExhaustsIn(i)
            ELSE IF OtherThanDuplicateAccept(Skipped(i))
            THEN TransfersIn(i)
            ELSE ExhaustsIn(i)

C9_Witness ==
    /\ _rules.duplicate_candidate_mode = "SkipDuplicate"
    /\ _rules.overvote_rule = "ExhaustImmediately"
    /\ \E i \in DOMAIN trace :
           /\ HeadEliminated(i)
           /\ NextRunning(i) = 3
           /\ Skipped(i) = <<Shaped[1], Shaped[1]>>
           /\ TransfersIn(i)

\* the first ballot is [x, y, y, z] for three distinct registered candidates
IsXYYZ ==
    /\ _votes # <<>>
    /\ Len(Shaped) = 4
    /\ \A j \in 1..4 : Shaped[j].kind = "Filled"
    /\ Shaped[2] = Shaped[3]
    /\ Cardinality({Shaped[1], Shaped[2], Shaped[4]}) = 3

\* C10, as stated: for the ballot [A, B, B, C], when A is eliminated and B is
\* still running the ballot is exhausted and not counted for B under
\* Exhaust, and moves to B with [C] behind it under SkipDuplicate.
C10_AsStated ==
    \A i \in DOMAIN trace :
        (IsXYYZ /\ HeadEliminated(i) /\ NextRunning(i) = 2) =>
            IF _rules.duplicate_candidate_mode = "Exhaust"
            THEN ExhaustsIn(i)
            ELSE /\ DOMAIN StatsOf(i)[Shaped[1].cid].status.transfers = {Shaped[2].cid}
                 /\ \A j \in NormalRounds :
                        (j > i /\ Shaped[2].cid \in EliminatedIn(j)
                               /\ Shaped[4].cid \in DOMAIN StatsOf(j) \ EliminatedIn(j)) =>
                            DOMAIN StatsOf(j)[Shaped[2].cid].status.transfers
                                = {Shaped[4].cid}

(***************************************************************************)
(* Properties of the validator, stated on the ballot of SpecValidate.      *)
(***************************************************************************)
\* the choices of the first ballot before its first registered candidate
BeforeUsable == SubSeq(Shaped, 1, FirstUsable - 1)

\* s holds m consecutive BlankOrUndervote entries
HasBlankRun(s, m) ==
    \E j \in 1..(Len(s) - m + 1) : \A l \in j..(j + m - 1) : s[l] = BlankOrUndervote

IsMaxAllowed == _rules.max_skipped_rank_allowed.kind = "MaxAllowed"

\* C11, as stated: under MaxAllowed(n) a ballot is rejected whenever the
\* choices before its next usable candidate hold a run of at least n + 1
\* consecutive BlankOrUndervote entries.
C11_AsStated ==
    (/\ Validated
     /\ IsMaxAllowed
     /\ HasBlankRun(BeforeUsable, _rules.max_skipped_rank_allowed.n + 1)) => NotCounted

\* C12: under MaxAllowed(n) a ballot whose choices before its next usable
\* candidate hold only runs of at most n consecutive BlankOrUndervote entries
\* is not rejected for skipped ranks: when the overvote rule accepts those
\* choices, the ballot is counted for that candidate.
C12_MaxAllowedRuns ==
    (/\ Validated
     /\ IsMaxAllowed
     /\ ~HasBlankRun(BeforeUsable, _rules.max_skipped_rank_allowed.n + 1)
     /\ (HasOvervote(BeforeUsable) => _rules.overvote_rule = "AlwaysSkipToNextRank"))
        => CountsFor(Shaped[FirstUsable].cid)

C12_Witness ==
    /\ pc = "done"
    /\ _rules.max_skipped_rank_allowed = MaxAllowed(2)
    /\ _rules.overvote_rule = "AlwaysSkipToNextRank"
    /\ _votes # <<>>
    /\ Shaped = <<BlankOrUndervote, Overvote, BlankOrUndervote, Overvote, Filled(1)>>
    /\ CountsFor(1)

\* the raw choices of the first ballot
Raw == _votes[1].candidates

RawRegistered(c) == c.kind = "Candidate" /\ c.name \in CandidateNames(_candidates.v)

RawUndeclared(c) ==
    \/ c = UndeclaredWriteIn
    \/ c.kind = "Candidate" /\ c.name \notin CandidateNames(_candidates.v)

\* the least position of P, 0 when P is empty
LeastOf(P) == IF P = {} THEN 0 ELSE CHOOSE j \in P : \A l \in P : j <= l

\* the first stop of the initial advancement: a registered candidate or an
\* undeclared entry
FirstStop == LeastOf({j \in DOMAIN Raw : RawRegistered(Raw[j]) \/ RawUndeclared(Raw[j])})

\* the stop of the strict advancement from the first stop
StrictStop == LeastOf({j \in DOMAIN Raw : j >= FirstStop /\ RawRegistered(Raw[j])})

\* the rules accept the choices of the first ballot from position a to b
RulesAccept(a, b) ==
    check_advance_rules(SubSeq(Shaped, a, b), _rules.duplicate_candidate_mode,
                        _rules.overvote_rule, _rules.max_skipped_rank_allowed) = "None"

\* the engine ballot made of the first ballot stopped at position j
EngineBallotAt(j) ==
    [first_valid |-> CandidateIdOf(_candidates.v, Raw[j].name),
     rest |-> SubSeq(Shaped, j + 1, Len(Shaped)),
     count |-> _votes[1].count]

\* the four outcomes of the validation of an election of one ballot
IsFirstRoundBallot ==
    /\ cr.votes = <<EngineBallotAt(FirstStop)>>
    /\ cr.uwi_first_votes = <<>>
    /\ cr.count_exhausted_uwi_first_round = 0

IsUwiFirstBallot ==
    /\ cr.votes = <<>>
    /\ cr.uwi_first_votes = <<EngineBallotAt(StrictStop)>>
    /\ cr.count_exhausted_uwi_first_round = 0

IsUwiExhausted ==
    /\ cr.votes = <<>>
    /\ cr.uwi_first_votes = <<>>
    /\ cr.count_exhausted_uwi_first_round = _votes[1].count

IsDropped ==
    /\ cr.votes = <<>>
    /\ cr.uwi_first_votes = <<>>
    /\ cr.count_exhausted_uwi_first_round = 0

\* C13: validation places the ballot in exactly one outcome: (d) dropped
\* when no stop is reachable or the choices before the first stop violate a
\* rule; (a) first-round ballot when the first stop is a registered
\* candidate; (b) UWI-first ballot when the first stop is undeclared and the
\* strict advancement from it reaches a registered candidate with the rules
\* satisfied; (c) its weight added to the UWI first-round exhaustion when
\* that advancement fails.  A name that is not registered is undeclared.
C13_ValidationOutcome ==
    (pc # "builder" /\ Len(_votes) = 1) =>
        IF FirstStop = 0 \/ ~RulesAccept(1, FirstStop - 1) THEN IsDropped
        ELSE IF RawRegistered(Raw[FirstStop]) THEN IsFirstRoundBallot
        ELSE IF StrictStop > 0 /\ RulesAccept(FirstStop, StrictStop - 1)
        THEN IsUwiFirstBallot
        ELSE IsUwiExhausted

C13_Witness ==
    /\ pc = "done"
    /\ Len(_votes) = 1
    /\ Raw = <<Blank, Candidate(Name(2)), BallotOvervote, Candidate(Name(1)), UndeclaredWriteIn>>
    /\ IsUwiFirstBallot
    /\ cr.uwi_first_votes[1].first_valid = 1
    /\ cr.uwi_first_votes[1].rest = <<Undeclared>>

(***************************************************************************)
(* Properties of the run as a whole, stated on the elections of SpecEdge.  *)
(***************************************************************************)
\* the candidates of the run
RunCandidates == CandidatesOf(_votes, _candidates)

\* the ballots of positive count
PositiveVotes == SelectSeq(_votes, LAMBDA v : v.count > 0)

\* C14, as stated: a raw ballot with count 0 produces no engine ballot, so
\* every engine ballot has a count greater than 0, and the result of the
\* run is the result of the run without the ballots of count 0.
C14_AsStated ==
    (pc # "builder" /\ cr # NoneValue) =>
        /\ \A v \in Range(cr.votes) \cup Range(cr.uwi_first_votes) : v.count > 0
        /\ \A i \in DOMAIN trace :
               trace[i].round_res.kind = "Ok" =>
                   \A v \in Range(trace[i].round_res.votes) : v.count > 0
        /\ pc = "done" => result \in run_voting_stats(PositiveVotes, _rules, _candidates)

\* C15, as stated: a run returns a VotingResult or a VotingErrors value; it
\* never panics.
C15_AsStated == result.kind # "Panic"

\* the choice c names an excluded candidate
NamesExcluded(c) ==
    c.kind = "Candidate" /\ c.name \in blacklisted_candidates(RunCandidates)

\* the ballot with the names of excluded candidates read as undeclared
AsUndeclared(vote) ==
    [candidates |-> [k \in DOMAIN vote.candidates |->
                        IF NamesExcluded(vote.candidates[k])
                        THEN UndeclaredWriteIn ELSE vote.candidates[k]],
     count |-> vote.count]

\* C16, as stated: a choice naming an excluded candidate is treated as
\* Undeclared by the validator (the run is the run of the ballots with that
\* choice replaced by the undeclared write-in), and an excluded candidate
\* has no tally weight in any round.
C16_AsStated ==
    pc = "done" =>
        /\ result \in run_voting_stats([i \in DOMAIN _votes |-> AsUndeclared(_votes[i])],
                                       _rules, _candidates)
        /\ \A i \in NormalRounds : \A cid \in DOMAIN TallyOf(i) :
               RunCandidates[cid].excluded => TallyOf(i)[cid] = 0

\* C17, as stated: a run returns the error EmptyElection when there are no
\* ballots, and when the candidate registry is empty.
C17_AsStated ==
    (pc = "done" /\ (_votes = <<>> \/ RunCandidates = <<>>)) =>
        result = ErrResult("EmptyElection")

\* C18, as stated: with number_of_winners greater than 1 the run returns an
\* error and no winner.
C18_AsStated ==
    (pc = "done" /\ _rules.number_of_winners > 1) => result.kind = "Err"

\* the ballot cut to its first n choices
Truncated(vote, n) ==
    [candidates |-> SubSeq(vote.candidates, 1,
                           IF Len(vote.candidates) < n THEN Len(vote.candidates) ELSE n),
     count |-> vote.count]

\* C19, as stated: with max_rankings_allowed = Some(n) the result of the run
\* is the result of the run with max_rankings_allowed = None on the ballots
\* cut to their first n choices.
C19_AsStated ==
    (pc = "done" /\ _rules.max_rankings_allowed.kind = "Some") =>
        result \in run_voting_stats(
                       [i \in DOMAIN _votes |->
                           Truncated(_votes[i], _rules.max_rankings_allowed.v)],
                       [_rules EXCEPT !.max_rankings_allowed = NoneValue], _candidates)

(***************************************************************************)
(* Properties of the batch elimination, stated on the elections of         *)
(* SpecBatch.                                                              *)
(***************************************************************************)
\* the results r and q name the same winners, or are both without a winner
SameWinner(r, q) ==
    IF r.kind = "Ok" THEN q.kind = "Ok" /\ q.winners = r.winners ELSE q.kind # "Ok"

\* C20, as stated: the run with elimination_algorithm = Batch elects the
\* same winner as the run of the same ballots, candidates and rules with
\* elimination_algorithm = Single.
C20_AsStated ==
    (pc = "done" /\ _rules.elimination_algorithm = "Batch") =>
        \A q \in run_voting_stats(_votes,
                     [_rules EXCEPT !.elimination_algorithm = "Single"], _candidates) :
            SameWinner(result, q)

(***************************************************************************)
(* The elections whose public statistics are looked at: those of the first *)
(* family under the default rules, followed to the VotingResult returned.  *)
(***************************************************************************)
StatsRules ==
    {r \in RoundRules : /\ r.tiebreak_mode = UseCandidateOrder
                        /\ r.elimination_algorithm = "Single"}

InitStats == Init /\ _rules \in StatsRules

NextStats == Next \/ ReturnVotingResult

SpecStats == InitStats /\ [][NextStats]_vars

\* the public statistics of the run returned
PubRounds == IF pc = "returned" THEN result.round_stats ELSE <<>>

\* the ballots of the Builder in the order p, a permutation of their positions
PermutedVotes(p) == [i \in DOMAIN _votes |-> _votes[p[i]]]

RegisteredAt(name) == CHOOSE k \in DOMAIN _candidates.v : _candidates.v[k].name = name

\* C22: in the statistics of every round the candidates of the tally are
\* listed in the order of the registry (ascending id), so that two runs on
\* the same input give the same, identically ordered, statistics.
C22_AsStated ==
    pc = "returned" =>
        \A i \in DOMAIN PubRounds : \A j, k \in DOMAIN PubRounds[i].tally :
            (/\ j < k
             /\ PubRounds[i].tally[j][1] # UwiName
             /\ PubRounds[i].tally[k][1] # UwiName)
                => RegisteredAt(PubRounds[i].tally[j][1]) < RegisteredAt(PubRounds[i].tally[k][1])

\* the weight the undeclared write-ins transfer or exhaust in round i
UwiActivity(i) ==
    SumOver(DOMAIN cur_stats[i].uwi_elimination_stats.transfers,
            cur_stats[i].uwi_elimination_stats.transfers)
        + cur_stats[i].uwi_elimination_stats.exhausted

\* the rounds whose public statistics name the undeclared write-ins, in the
\* tally or in the eliminated list
UwiNamedIn(i) ==
    \/ \E j \in DOMAIN PubRounds[i].tally : PubRounds[i].tally[j][1] = UwiName
    \/ \E j \in DOMAIN PubRounds[i].tally_result_eliminated :
           PubRounds[i].tally_result_eliminated[j].name = UwiName

\* C28: in the RoundStats of a returned VotingResult an entry named
\* "Undeclared Write-ins" appears in a round only when the undeclared
\* write-ins transfer or exhaust some weight in that round; the final round
\* that elects the last remaining candidate has no such entry.
C28_AsStated ==
    pc = "returned" =>
        \A i \in DOMAIN PubRounds : UwiNamedIn(i) => UwiActivity(i) > 0

(***************************************************************************)
(* The elections of the Random tie-break: the candidates declared in every *)
(* order of their names, ballots of weight 1 that rank candidates.         *)
(***************************************************************************)
MaxRandomSeed == 1

RandomRegistries ==
    {[i \in DOMAIN p |-> NewCandidate(p[i])] : p \in Perms({Name(i) : i \in 1..MaxCands})}

RandomBallots(cands) ==
    {Ballot(c, 1) : c \in SeqsUpTo({Candidate(cands[i].name) : i \in DOMAIN cands}, MaxLen)}

RandomRules ==
    {[r EXCEPT !.tiebreak_mode = Random(seed)] :
        r \in StatsRules, seed \in 0..MaxRandomSeed}

InitRandom ==
    /\ _rules \in RandomRules
    /\ _candidates \in {SomeCandidates(r) : r \in RandomRegistries}
    /\ _votes = <<>>
    /\ pc = "builder"
    /\ cr = NoneValue
    /\ cur_sorted_candidates = <<>>
    /\ cur_votes = <<>>
    /\ cur_stats = <<>>
    /\ result = NoResult
    /\ trace = <<>>

NextRandom ==
    \/ /\ Len(_votes) < MaxBallots
       /\ \E vote \in RandomBallots(_candidates.v) : add_vote_2(vote)
    \/ run_election
    \/ OneRound

SpecRandom == InitRandom /\ [][NextRandom]_vars

\* the n-th decimal digit from the right of x, as a character
DigitAt(x, n) == 48 + ((x \div (10 ^ (n - 1))) % 10)

\* x written with 8 digits, zero-padded
EightDigits(x) == [k \in 1..8 |-> DigitAt(x, 9 - k)]

\* the string of the Random tie-break for candidate c in round i
RandomKey(i, c) ==
    EightDigits(_rules.tiebreak_mode.seed) \o EightDigits(i) \o NameOfCid(c)

Call(name, candidates, count) == [call |-> name, candidates |-> candidates, count |-> count]

\* Builder::candidates: the votes of the new Builder are Vec::new()
Builder_candidates(cands) ==
    /\ pc = "builder"
    /\ _candidates' = SomeCandidates([i \in DOMAIN cands |-> NewCandidate(cands[i])])
    /\ _votes' = <<>>
    /\ trace' = Append(trace, Call("candidates", cands, 0))
    /\ UNCHANGED <<_rules, pc, cr, cur_sorted_candidates, cur_votes, cur_stats, result>>

\* a variant of add_vote_choice without the arm of the single empty string
add_vote_choice_no_blank(candidates_o, c) ==
    IF c = <<>> THEN Undervote
    ELSE IF Len(c) = 1
    THEN IF candidates_o.kind = "Some"
         THEN IF \E i \in DOMAIN candidates_o.v : candidates_o.v[i].name = c[1]
              THEN Candidate(c[1])
              ELSE UndeclaredWriteIn
         ELSE Candidate(c[1])
    ELSE BallotOvervote

\* Builder::add_vote: the match on the names of one rank
add_vote_choice(candidates_o, c) ==
    IF c = <<>> THEN Undervote
    ELSE IF Len(c) = 1 /\ c[1] = <<>> THEN Blank
    ELSE IF Len(c) = 1
    THEN IF candidates_o.kind = "Some"
         THEN IF \E i \in DOMAIN candidates_o.v : candidates_o.v[i].name = c[1]
              THEN Candidate(c[1])
              ELSE UndeclaredWriteIn
         ELSE Candidate(c[1])
    ELSE BallotOvervote

\* the Vote that Builder::add_vote hands to add_vote_2
add_vote_ballot(candidates_o, candidates, count) ==
    Ballot([i \in DOMAIN candidates |-> add_vote_choice(candidates_o, candidates[i])], count)

\* Builder::add_vote, down to the push of add_vote_2
add_vote(candidates, count) ==
    /\ pc = "builder"
    /\ _votes' = Append(_votes, add_vote_ballot(_candidates, candidates, count))
    /\ trace' = Append(trace, Call("add_vote", candidates, count))
    /\ UNCHANGED <<_rules, _candidates, pc, cr, cur_sorted_candidates, cur_votes,
                   cur_stats, result>>

\* Builder::add_vote_simple: self.add_vote(&[candidates.to_vec()], 1)
add_vote_simple(candidates) ==
    /\ pc = "builder"
    /\ _votes' = Append(_votes, add_vote_ballot(_candidates, <<candidates>>, 1))
    /\ trace' = Append(trace, Call("add_vote_simple", candidates, 1))
    /\ UNCHANGED <<_rules, _candidates, pc, cr, cur_sorted_candidates, cur_votes,
                   cur_stats, result>>

\* run_election1: cand_set, every string of the ballots
run_election1_cand_set(votes) == UNION {Range(votes[i]) : i \in DOMAIN votes}

\* run_election1: the ballots added with add_vote, one name per rank
run_election1_votes(votes, candidates_o) ==
    [i \in DOMAIN votes |->
        add_vote_ballot(candidates_o, [k \in DOMAIN votes[i] |-> <<votes[i][k]>>], 1)]

\* run_election1 up to the while loop of run_voting_stats: cand_vec is the
\* HashSet cand_set in one of the orders of its iteration
run_election1(votes) ==
    /\ pc = "builder"
    /\ trace = <<>>
    /\ _candidates = NoneValue
    /\ _votes = <<>>
    /\ \E cand_vec \in Perms(run_election1_cand_set(votes)) :
           /\ _candidates' = SomeCandidates([i \in DOMAIN cand_vec |->
                                                NewCandidate(cand_vec[i])])
           /\ _votes' = run_election1_votes(votes, _candidates')
    /\ IF ChecksPanics(_votes', _candidates'.v)
       THEN /\ pc' = "done"
            /\ result' = PanicResult("blacklisted not implemented")
            /\ UNCHANGED <<cr, cur_sorted_candidates, cur_votes>>
       ELSE /\ pc' = "running"
            /\ cr' = checks(_votes', _candidates'.v, _rules)
            /\ cur_sorted_candidates' = cr'.candidates
            /\ cur_votes' = cr'.votes
            /\ UNCHANGED result
    /\ trace' = Append(trace, Call("run_election1", votes, 0))
    /\ UNCHANGED <<_rules, cur_stats>>

(***************************************************************************)
(* The elections of the public interface: a new Builder under the default  *)
(* rules, at most MaxCalls calls of candidates, add_vote or                *)
(* add_vote_simple and then run_election, or run_election1 on its own.     *)
(***************************************************************************)
MaxCalls == 2
MaxApiVotes == 2
MaxSimple == 3

\* the strings of the calls: "A", "B" and the empty string
ApiNames == {Name(1), Name(2), <<>>}

ApiRegistries ==
    {cands \in SeqsUpTo({Name(1), Name(2)}, 2) :
        \A i, j \in DOMAIN cands : cands[i] = cands[j] => i = j}

\* the raw ballots of add_vote: ranks of up to two strings
ApiBallots == SeqsUpTo(SeqsUpTo(ApiNames, 2), MaxLen)

\* the ballots of run_election1
ApiVotes == SeqsUpTo(SeqsUpTo(ApiNames, MaxLen), MaxApiVotes)

InitBuilder ==
    /\ _rules \in StatsRules
    /\ _candidates = NoneValue
    /\ _votes = <<>>
    /\ pc = "builder"
    /\ cr = NoneValue
    /\ cur_sorted_candidates = <<>>
    /\ cur_votes = <<>>
    /\ cur_stats = <<>>
    /\ result = NoResult
    /\ trace = <<>>

NextBuilder ==
    \/ /\ Len(trace) < MaxCalls
       /\ \E cands \in ApiRegistries : Builder_candidates(cands)
    \/ /\ Len(trace) < MaxCalls
       /\ _votes = <<>>
       /\ \E candidates \in ApiBallots : \E count \in 1..MaxCount : add_vote(candidates, count)
    \/ /\ Len(trace) < MaxCalls
       /\ _votes = <<>>
       /\ \E candidates \in SeqsUpTo(ApiNames, MaxSimple) : add_vote_simple(candidates)
    \/ run_election
    \/ \E votes \in ApiVotes : run_election1(votes)
    \/ FirstRoundUwi
    \/ OneRound

SpecBuilder == InitBuilder /\ [][NextBuilder]_vars

\* the calls logged in trace
Calls == {i \in DOMAIN trace : "call" \in DOMAIN trace[i]}
CalledAt(i, name) == i \in Calls /\ trace[i].call = name

\* no explicit candidate list was supplied to the run
NoExplicitList == \A i \in DOMAIN trace : ~CalledAt(i, "candidates")

\* the candidate names found on the ballots of the Builder
FoundNames ==
    {c.name : c \in {x \in UNION {Range(_votes[i].candidates) : i \in DOMAIN _votes} :
                        x.kind = "Candidate"}}

\* the names found, in alphabetical order
Alphabetical == SortedSeq(FoundNames, {st \in FoundNames \X FoundNames : LexLess(st[1], st[2])})

\* the run has passed the validation of the ballots
Checked == pc \in {"running", "done"} /\ result.kind # "Panic"

\* C24: when no explicit candidate list is supplied (run_election on a
\* Builder without candidates(), and run_election1), the registry is the set
\* of the distinct candidate names found on the ballots, sorted
\* alphabetically, with the ids 1..N in that order.
C24_AsStated ==
    (Checked /\ NoExplicitList) =>
        cr.candidates = [i \in DOMAIN Alphabetical |-> [name |-> Alphabetical[i], cid |-> i]]

\* the names registered by the run
RegisteredNames == {cr.candidates[i].name : i \in DOMAIN cr.candidates}

\* the names of the candidates in the tally of round i
TallyNames(i) ==
    {candidates_by_id(cr.candidates, cid) : cid \in DOMAIN cur_stats[i].candidate_stats}

\* C25: in run_election1 every non-empty name found on a ballot is a
\* registered candidate and the empty name is not: the empty string is a
\* candidate in no round's tally and is never eliminated or elected.
C25_AsStated ==
    (CalledAt(1, "run_election1") /\ Checked) =>
        /\ RegisteredNames = run_election1_cand_set(trace[1].candidates) \ {<<>>}
        /\ \A i \in DOMAIN cur_stats : <<>> \notin TallyNames(i)
        /\ result.kind = "Ok" => <<>> \notin result.winners

\* the last call of the Builder
LastCall == CHOOSE i \in Calls : \A j \in Calls : j <= i

\* the explicit candidate list of the Builder holds the name
Listed(name) == \E i \in DOMAIN _candidates.v : _candidates.v[i].name = name

\* the choice a rank of a raw ballot stands for, by its shape
ShapeChoice(rank) ==
    CASE Len(rank) = 0 -> Undervote
      [] Len(rank) = 1 /\ rank[1] = <<>> -> Blank
      [] Len(rank) = 1 /\ rank[1] # <<>> ->
            IF _candidates.kind = "Some" /\ ~Listed(rank[1])
            THEN UndeclaredWriteIn ELSE Candidate(rank[1])
      [] Len(rank) >= 2 -> BallotOvervote

\* C26: Builder::add_vote maps each rank of the raw ballot by its shape (no
\* name: Undervote; one empty string: Blank; two or more names: Overvote;
\* one non-empty name: that candidate, or UndeclaredWriteIn when an explicit
\* candidate list was set and does not hold the name); the ballot keeps the
\* given count and the order of the ranks.
C26_AddVote ==
    (Calls # {} /\ CalledAt(LastCall, "add_vote")) =>
        /\ Len(_votes) = 1
        /\ _votes[1].count = trace[LastCall].count
        /\ Len(_votes[1].candidates) = Len(trace[LastCall].candidates)
        /\ \A k \in DOMAIN _votes[1].candidates :
               _votes[1].candidates[k] = ShapeChoice(trace[LastCall].candidates[k])

C26_Witness ==
    /\ pc = "builder"
    /\ Len(trace) = 2
    /\ CalledAt(1, "candidates") /\ trace[1].candidates = <<Name(1)>>
    /\ CalledAt(2, "add_vote") /\ trace[2].candidates = <<<<Name(2)>>, <<<<>>>>>>
    /\ _votes = <<Ballot(<<UndeclaredWriteIn, Blank>>, MaxCount)>>

\* the raw ballot with one rank for each name
OneNamePerRank(names) == [k \in DOMAIN names |-> <<names[k]>>]

\* C27: Builder::add_vote_simple(names) records one ballot of weight 1 whose
\* i-th rank is the single name names[i], in the given order, exactly as
\* add_vote of the ranks [names[1]], [names[2]], ... with the count 1.
C27_AsStated ==
    (Calls # {} /\ CalledAt(LastCall, "add_vote_simple")) =>
        _votes = <<add_vote_ballot(_candidates, OneNamePerRank(trace[LastCall].candidates), 1)>>

(***************************************************************************)
(* The elections of the batch rule: four candidates, for each of them at   *)
(* most one ballot, of weight 1..MaxTally, that ranks it alone.            *)
(***************************************************************************)
MaxTally == 10

\* the ballot of count w for the i-th candidate alone
TallyBallot(i, w) == Ballot(<<Candidate(Name(i))>>, w)

\* the candidates whose ballot may be added: those after the last one added
NextTallied ==
    {i \in 1..MaxBatchCands :
        \A k \in DOMAIN _votes : \A j \in i..MaxBatchCands :
            _votes[k].candidates # <<Candidate(Name(j))>>}

NextTally ==
    \/ \E i \in NextTallied : \E w \in 1..MaxTally : add_vote_2(TallyBallot(i, w))
    \/ run_election
    \/ OneRound

SpecTally == InitBatch /\ [][NextTally]_vars

\* the tallies of round i in ascending order, in one of the orders of the
\* candidates, and the sum of the tallies before position k (from 1)
PrevCum(i, s, k) == SumOver(1..(k - 1), [j \in DOMAIN s |-> TallyOf(i)[s[j]]])

\* the positions (from 1) whose tally exceeds the sum of the tallies before
GapsOf(i, s) == {k \in DOMAIN s : PrevCum(i, s, k) < TallyOf(i)[s[k]]}

\* the number of candidates below the last gap: the k of the rule, 0 when
\* there is no gap
BatchSize(i, s) ==
    IF GapsOf(i, s) = {} THEN 0
    ELSE (CHOOSE k \in GapsOf(i, s) : \A l \in GapsOf(i, s) : l <= k) - 1

\* round i of a run under the Batch algorithm with two candidates or more
BatchRound(i) ==
    /\ i \in NormalRounds
    /\ _rules.elimination_algorithm = "Batch"
    /\ Cardinality(DOMAIN StatsOf(i)) >= 2

\* the round took its elimination as Clean: the survivors at or above the
\* threshold are Elected
CleanRound(i) ==
    \A c \in DOMAIN StatsOf(i) \ EliminatedIn(i) :
        TallyOf(i)[c] >= ThresholdOf(i) => StatsOf(i)[c].status.kind = "Elected"

\* C29: with the candidates sorted by ascending tally and k the largest
\* position (from 0) whose tally exceeds the sum of the tallies before it,
\* the batch eliminates exactly the k first candidates, Clean, when k > 0;
\* otherwise the batch eliminates nobody and single elimination is used: one
\* candidate of least tally is eliminated.
C29_BatchRule ==
    \A i \in DOMAIN trace :
        BatchRound(i) =>
            \A s \in SortedTallies(TallyOf(i)) :
                IF BatchSize(i, s) > 0
                THEN /\ EliminatedIn(i) = {s[j] : j \in 1..BatchSize(i, s)}
                     /\ CleanRound(i)
                ELSE \E c \in MinTally(i) : EliminatedIn(i) = {c}

\* the tallies A:1, B:2, C:3, D:10 eliminate A, B and C in one round
C29_Witness ==
    /\ Len(trace) >= 1
    /\ BatchRound(1)
    /\ TallyOf(1) = <<1, 2, 3, 10>>
    /\ EliminatedIn(1) = {1, 2, 3}
    /\ StatsOf(1)[4].status.kind = "Elected"

\* C30: in every round where a batch is eliminated the sum of the tallies of
\* the eliminated candidates is strictly less than the tally of every
\* surviving candidate; no eliminated candidate has the tally of a survivor
\* and at least one candidate survives.
C30_BatchSafety ==
    \A i \in DOMAIN trace :
        (BatchRound(i) /\ BatchUsed(i)) =>
            /\ DOMAIN StatsOf(i) \ EliminatedIn(i) # {}
            /\ \A c \in DOMAIN StatsOf(i) \ EliminatedIn(i) :
                   /\ SumOver(EliminatedIn(i), TallyOf(i)) < TallyOf(i)[c]
                   /\ \A e \in EliminatedIn(i) : TallyOf(i)[e] # TallyOf(i)[c]

C30_Witness ==
    /\ Len(trace) >= 1
    /\ BatchRound(1) /\ BatchUsed(1)
    /\ TallyOf(1) = <<2, 2, 5, 5>>
    /\ EliminatedIn(1) = {1, 2}

\* a seed of more than 8 digits
WideSeed == 100000000

\* the seeds and the rounds the order of a tie is compared over
SeedSamples == 0..MaxRandomSeed \cup {WideSeed}
RoundSamples == 1..(MaxCands + 1)

\* the tied candidates of round i with their names, as the tie-break gets them
TiedWithNames(i) == cand_with_names(trace[i].candidate_names, MinTally(i))

IsAddCall(e) == "call" \in DOMAIN e /\ e.call \in {"add_vote", "add_vote_simple"}
AddCalls == SelectSeq(trace, IsAddCall)

\* C32: every ballot added to the Builder is among the ballots that
\* run_election tabulates, whatever the order of the calls: candidates()
\* called after ballots were added keeps the rules and those ballots.
C32_AsStated ==
    (Calls # {} /\ ~CalledAt(1, "run_election1")) =>
        /\ Len(_votes) = Len(AddCalls)
        /\ \A k \in DOMAIN AddCalls : _votes[k].count = AddCalls[k].count

\* the validator produced a UWI-first ballot or a UWI first-round exhaustion
UwiProduced ==
    /\ Checked
    /\ \/ cr.uwi_first_votes # <<>>
       \/ cr.count_exhausted_uwi_first_round > 0

\* the weight of the ballots of votes whose head is cid
WeightFor(votes, cid) ==
    SumOver({k \in DOMAIN votes : votes[k].first_valid = cid},
            [k \in DOMAIN votes |-> votes[k].count])

\* the UWI record of round i
UwiRecord(i) == trace[i].round_res.stats.uwi_elimination_stats

\* C33: when the validator produced a UWI-first ballot or a non-zero UWI
\* first-round exhaustion, round 1 and only round 1 is the flush round: its
\* tally counts the non-UWI ballots only, every registered candidate is
\* StillRunning, its threshold is 0, the UWI record credits the weight of
\* each UWI-first ballot to its first_valid candidate and carries the
\* exhausted weight, and round 2 counts the UWI-first ballots for their
\* first_valid candidate.  Without such ballots no round is a flush round.
C33_UwiFlush ==
    \A i \in Rounds :
        /\ (~trace[i].normal) <=> (i = 1 /\ UwiProduced)
        /\ (~trace[i].normal) =>
              /\ DOMAIN StatsOf(i) = Cids(cr.candidates)
              /\ \A c \in DOMAIN StatsOf(i) :
                     /\ TallyOf(i)[c] = WeightFor(cr.votes, c)
                     /\ StatsOf(i)[c].status = StillRunning
              /\ ThresholdOf(i) = 0
              /\ UwiRecord(i).kind = "Some"
              /\ UwiRecord(i).exhausted = cr.count_exhausted_uwi_first_round
              /\ DOMAIN UwiRecord(i).transfers =
                     {cr.uwi_first_votes[k].first_valid : k \in DOMAIN cr.uwi_first_votes}
              /\ \A c \in DOMAIN UwiRecord(i).transfers :
                     UwiRecord(i).transfers[c] = WeightFor(cr.uwi_first_votes, c)
              /\ (i + 1) \in Rounds =>
                     \A c \in DOMAIN StatsOf(i + 1) :
                         TallyOf(i + 1)[c] = WeightFor(cr.votes, c)
                                               + WeightFor(cr.uwi_first_votes, c)

C33_Witness ==
    /\ pc = "done"
    /\ result.kind = "Ok"
    /\ Len(trace) >= 3
    /\ ~trace[1].normal
    /\ cr.uwi_first_votes # <<>>
    /\ cr.count_exhausted_uwi_first_round > 0
    /\ cr.votes # <<>>

\* the ballots round i starts with and the ballots it leaves
RoundIn(i) == trace[i].votes
RoundOut(i) == trace[i].round_res.votes

\* the positions of the ballots of round i whose head is eliminated in it
Headless(i) == {j \in DOMAIN RoundIn(i) : RoundIn(i)[j].first_valid \in EliminatedIn(i)}

\* the positions round i keeps when it drops those of D, in their order
KeptPositions(i, D) == SelectSeq([j \in DOMAIN RoundIn(i) |-> j], LAMBDA j : j \notin D)

\* D accounts for round i: without the ballots at D, the ballots left are
\* the ballots kept, in their order; a ballot whose head is not eliminated is
\* the same, a ballot whose head is eliminated has its count and a head that
\* is not eliminated
Accounts(i, D) ==
    /\ Len(RoundOut(i)) = Len(RoundIn(i)) - Cardinality(D)
    /\ \A k \in DOMAIN RoundOut(i) :
           IF KeptPositions(i, D)[k] \in Headless(i)
           THEN /\ RoundOut(i)[k].count = RoundIn(i)[KeptPositions(i, D)[k]].count
                /\ RoundOut(i)[k].first_valid \notin EliminatedIn(i)
                /\ RoundOut(i)[k].first_valid \in DOMAIN StatsOf(i)
           ELSE RoundOut(i)[k] = RoundIn(i)[KeptPositions(i, D)[k]]

\* the sets of ballots that round i may have exhausted
Fates(i) == {D \in SUBSET Headless(i) : Accounts(i, D)}

\* the weight that moves from e to t in round i when D is exhausted
MovedWeight(i, D, e, t) ==
    SumOver({k \in DOMAIN RoundOut(i) : /\ RoundIn(i)[KeptPositions(i, D)[k]].first_valid = e
                                        /\ RoundOut(i)[k].first_valid = t},
            [k \in DOMAIN RoundOut(i) |-> RoundOut(i)[k].count])

\* the weight of the ballots of D whose head is e
DroppedWeight(i, D, e) ==
    SumOver({j \in D : RoundIn(i)[j].first_valid = e},
            [j \in DOMAIN RoundIn(i) |-> RoundIn(i)[j].count])

\* the weight recorded as transferred from e to t in round i
Transferred(i, e, t) ==
    IF t \in DOMAIN StatsOf(i)[e].status.transfers THEN StatsOf(i)[e].status.transfers[t] ELSE 0

\* C34: in every normal round each ballot whose head is eliminated is
\* credited to its old head and to no other candidate, in the transfer map
\* or in the exhausted count; a transferred ballot has a new head that is
\* not eliminated in the round and is in the tally of the next round.
C34_TransferLocality ==
    \A i \in NormalRounds :
        \E D \in Fates(i) :
            \A e \in EliminatedIn(i) :
                /\ StatsOf(i)[e].status.exhausted = DroppedWeight(i, D, e)
                /\ \A t \in DOMAIN StatsOf(i) : Transferred(i, e, t) = MovedWeight(i, D, e, t)
                /\ \A t \in DOMAIN StatsOf(i)[e].status.transfers :
                       /\ t \in DOMAIN StatsOf(i) \ EliminatedIn(i)
                       /\ (i + 1) \in Rounds => t \in DOMAIN StatsOf(i + 1)

C34_Witness ==
    \E i \in NormalRounds : \E e, f \in EliminatedIn(i) :
        /\ e # f
        /\ DOMAIN StatsOf(i)[e].status.transfers # {}
        /\ StatsOf(i)[f].status.exhausted > 0
        /\ (i + 1) \in Rounds

\* C35: for every candidate marked Eliminated in a normal round, the tally
\* of the candidate in that round is the sum of the weights of its transfer
\* map plus its exhausted count.
C35_EliminationAccounting ==
    \A i \in NormalRounds : \A e \in EliminatedIn(i) :
        TallyOf(i)[e] = SumOver(DOMAIN StatsOf(i)[e].status.transfers,
                                StatsOf(i)[e].status.transfers)
                          + StatsOf(i)[e].status.exhausted

C35_Witness ==
    \E i \in NormalRounds : \E e \in EliminatedIn(i) :
        /\ DOMAIN StatsOf(i)[e].status.transfers # {}
        /\ StatsOf(i)[e].status.exhausted > 0
        /\ TallyOf(i)[e] >= 2

\* the weight credited to c in round i: the transfers of the eliminated
\* candidates in a normal round, those of the UWI record in the flush round
CreditedTo(i, c) ==
    IF trace[i].normal
    THEN SumOver(EliminatedIn(i), [e \in EliminatedIn(i) |-> Transferred(i, e, c)])
    ELSE IF c \in DOMAIN UwiRecord(i).transfers THEN UwiRecord(i).transfers[c] ELSE 0

\* the ballots of round i whose head is not eliminated in it, in their order
Untouched(i) == SelectSeq(RoundIn(i), LAMBDA v : v.first_valid \notin EliminatedIn(i))

\* the ballots round i leaves, without those at the positions M
Without(i, M) ==
    LET kept == SelectSeq([k \in DOMAIN RoundOut(i) |-> k], LAMBDA k : k \notin M)
    IN [n \in DOMAIN kept |-> RoundOut(i)[kept[n]]]

\* C36: the ballots whose head is not eliminated in a round pass to the next
\* round unchanged (same first_valid, same remaining choices, same count),
\* and the tally of a surviving candidate in round k+1 is its tally in round
\* k plus the weight transferred to it in round k (the UWI transfers in the
\* flush round).
C36_Frame ==
    \A i \in Rounds :
        (i + 1) \in Rounds =>
            /\ trace[i + 1].votes = RoundOut(i)
            /\ \E M \in SUBSET DOMAIN RoundOut(i) : Without(i, M) = Untouched(i)
            /\ \A c \in DOMAIN StatsOf(i + 1) :
                   TallyOf(i + 1)[c] = TallyOf(i)[c] + CreditedTo(i, c)

C36_Witness ==
    /\ {1, 2, 3} \subseteq Rounds
    /\ ~trace[1].normal
    /\ \E c \in DOMAIN StatsOf(3) : CreditedTo(1, c) > 0
    /\ \E d \in DOMAIN StatsOf(3) : TallyOf(2)[d] > 0 /\ CreditedTo(2, d) > 0
    /\ Len(Untouched(2)) >= 1

\* the candidate list the loop holds once round i is over
ListAfter(i) == IF i < Len(trace) THEN trace[i + 1].candidate_names ELSE cur_sorted_candidates

\* the candidates of round i that it does not mark Eliminated, in their order
NotEliminated(i) == SelectSeq(trace[i].candidate_names, LAMBDA p : p.cid \notin EliminatedIn(i))

\* C37: for a non-empty registry of distinct names the assertions between the
\* rounds never fail: after a normal round either every candidate of the
\* round is Elected or the list of the survivors is strictly shorter than
\* the list the round started with, the list is never empty, and the UWI
\* flush round leaves the list as it is.
C37_Decrease ==
    /\ result.kind # "Panic"
    /\ \A i \in Rounds :
           /\ ListAfter(i) = NotEliminated(i)
           /\ ListAfter(i) # <<>>
           /\ trace[i].normal =>
                  \/ \A cid \in DOMAIN StatsOf(i) : StatsOf(i)[cid].status.kind = "Elected"
                  \/ Len(ListAfter(i)) < Len(trace[i].candidate_names)
           /\ ~trace[i].normal => ListAfter(i) = trace[i].candidate_names

C37_Witness ==
    /\ result.kind = "Ok"
    /\ Len(trace) = 3
    /\ ~trace[1].normal
    /\ Len(trace[2].candidate_names) >= 2
    /\ AllSmallest(TallyOf(2)) = DOMAIN TallyOf(2)
    /\ Len(ListAfter(2)) = Len(trace[2].candidate_names) - 1
    /\ Len(ListAfter(3)) = 1

\* the rounds that hold an Elected status
ElectingRounds == {i \in Rounds : ElectedIn(StatsOf(i)) # {}}

\* the rounds recorded stay within the registry size, the flush round is
\* the first, only the last round elects and the run that is over has a winner
RunBounded ==
    /\ Rounds = DOMAIN trace
    /\ Len(cur_stats) = Len(trace)
    /\ Cardinality(NormalRounds) <= Len(_candidates.v)
    /\ Rounds \ NormalRounds \subseteq {1}
    /\ ElectingRounds = IF pc = "done" THEN {Len(trace)} ELSE {}
    /\ pc = "done" =>
           /\ result.kind = "Ok"
           /\ result.winners # {}
           /\ result.winners \subseteq {_candidates.v[j].name : j \in DOMAIN _candidates.v}
    /\ result = ErrResult("NoConvergence") => Len(cur_stats) >= RoundCap

\* what is left to do in the loop: the candidates still running, and the
\* flush round when it is due
LoopMeasure == Len(cur_sorted_candidates) + (IF has_initial_uwis THEN 1 ELSE 0)

\* an iteration of the loop can run: the round has an outcome to take
CanTurn == SortedTallies(compute_tally(cur_votes, cur_sorted_candidates)) # {}

\* an iteration of the loop ends the run or leaves less to do
LoopTurn == pc = "running" => (pc' = "done" \/ (pc' = "running" /\ LoopMeasure' < LoopMeasure))

LastStanding == {i \in NormalRounds : Len(trace[i].candidate_names) = 1}

\* the weight of the ballots round i starts with
WeightIn(i) == SumOver(DOMAIN RoundIn(i), [j \in DOMAIN RoundIn(i) |-> RoundIn(i)[j].count])

\* C39: when exactly one candidate remains at the start of a normal round,
\* this candidate is marked Elected whatever its tally, nobody is
\* eliminated, no transfer and no exhaustion is recorded, the ballots are
\* left unchanged, and the threshold reported is the one computed from the
\* tally of this round.
C39_LastStanding ==
    \A i \in LastStanding :
        LET cid == trace[i].candidate_names[1].cid
        IN /\ DOMAIN StatsOf(i) = {cid}
           /\ StatsOf(i)[cid].status = Elected
           /\ TallyOf(i)[cid] = WeightIn(i)
           /\ EliminatedIn(i) = {}
           /\ UwiRecord(i).transfers = <<>>
           /\ UwiRecord(i).exhausted = 0
           /\ RoundOut(i) = RoundIn(i)
           /\ ThresholdOf(i) = get_threshold(TallyOf(i))
           /\ i = Len(trace)
           /\ pc = "done"
           /\ cur_votes = RoundIn(i)
           /\ result = OkResult({trace[i].candidate_names[1].name}, ThresholdOf(i))

C39_Witness ==
    \E i \in LastStanding :
        /\ i >= 3
        /\ Len(RoundIn(i)) >= 2
        /\ WeightIn(i) >= 2

====
